---- MODULE Spec2Model ----
(***************************************************************************)
(* VaultFace: the aggregation pipeline that the dashboard widgets and the  *)
(* summary endpoint each re-implement (fetch all documents of the owner,   *)
(* normalise the date, filter, bucket, sum).                               *)
(*                                                                         *)
(* The record store is an external collaborator: its two collections are   *)
(* drawn in Init.  Every handler is one action that reads the store and    *)
(* commits its result; `user` is the account useAuth() yields and `output`  *)
(* holds the value most recently committed                                 *)
(* (the argument of setData / setChartData / NextResponse.json) together   *)
(* with the props the handler ran with.                                    *)
(*                                                                         *)
(* JavaScript values are tagged records.  A Date carries its time value in *)
(* seconds (the code's milliseconds divided by 1000, TLC integers being    *)
(* 32 bits wide); the process time zone is UTC.                            *)
(***************************************************************************)
EXTENDS Integers, Sequences, FiniteSets, TLC

VARIABLES incomes, expenses, user, output

vars == <<incomes, expenses, user, output>>

(***************************************************************************)
(* Bounds                                                                  *)
(***************************************************************************)
\* documents in the store, both collections together
MaxDocs == 2

\* records of one month in the store of the transactions table
MaxRows == 52

\* invocations of fetchInsight on one mounted card
MaxCalls == 2

(***************************************************************************)
(* JavaScript values                                                       *)
(***************************************************************************)
Undefined == [t |-> "undefined"]

Null == [t |-> "null"]

Num(n) == [t |-> "number", nan |-> FALSE, n |-> n]

NaN == [t |-> "number", nan |-> TRUE, n |-> 0]

\* a string that is not an ISO-8601 date
Str(text) == [t |-> "string", text |-> text, iso |-> <<>>]

\* an ISO-8601 date string, with the <<year, month, day>> it spells
IsoStr(text, ymd) == [t |-> "string", text |-> text, iso |-> ymd]

\* firebase/firestore Timestamp: has toDate() and seconds
Timestamp(sec) == [t |-> "Timestamp", seconds |-> sec]

\* a plain map { seconds: n } (no toDate)
SecondsObj(sec) == [t |-> "object", seconds |-> sec]

DateOf(time) == [t |-> "Date", valid |-> TRUE, time |-> time]

InvalidDate == [t |-> "Date", valid |-> FALSE, time |-> 0]

\* ToBoolean
Truthy(v) ==
  CASE v.t = "undefined" -> FALSE
    [] v.t = "null" -> FALSE
    [] v.t = "number" -> ~v.nan /\ v.n # 0
    [] v.t = "string" -> v.text # ""
    [] OTHER -> TRUE

\* a || b
Or(a, b) == IF Truthy(a) THEN a ELSE b

\* Number(v), for the values an amount field takes
ToNumber(v) ==
  CASE v.t = "number" -> v
    [] v.t = "undefined" -> NaN
    [] v.t = "null" -> Num(0)
    [] v.t = "string" -> IF v.text = "" THEN Num(0) ELSE NaN
    [] OTHER -> NaN

\* a + b on numbers
Plus(a, b) == IF a.nan \/ b.nan THEN NaN ELSE Num(a.n + b.n)

\* a - b on numbers
Minus(a, b) == IF a.nan \/ b.nan THEN NaN ELSE Num(a.n - b.n)

\* value?.seconds
OptSeconds(v) ==
  IF v.t \in {"Timestamp", "object"} THEN Num(v.seconds) ELSE Undefined

(***************************************************************************)
(* Calendar (proleptic Gregorian, UTC)                                     *)
(***************************************************************************)
DaysFromCivil(y, m, d) ==
  LET yy  == IF m <= 2 THEN y - 1 ELSE y
      era == yy \div 400
      yoe == yy - era * 400
      mp  == IF m > 2 THEN m - 3 ELSE m + 9
      doy == (153 * mp + 2) \div 5 + d - 1
      doe == yoe * 365 + yoe \div 4 - yoe \div 100 + doy
  IN  era * 146097 + doe - 719468

CivilFromDays(z) ==
  LET zz  == z + 719468
      era == zz \div 146097
      doe == zz - era * 146097
      yoe == (doe - doe \div 1460 + doe \div 36524 - doe \div 146096) \div 365
      doy == doe - (365 * yoe + yoe \div 4 - yoe \div 100)
      mp  == (5 * doy + 2) \div 153
      d   == doy - (153 * mp + 2) \div 5 + 1
      m   == IF mp < 10 THEN mp + 3 ELSE mp - 9
      y   == yoe + era * 400 + (IF m <= 2 THEN 1 ELSE 0)
  IN  <<y, m, d>>

\* Date.prototype.getFullYear
getFullYear(date) ==
  IF date.valid THEN Num(CivilFromDays(date.time \div 86400)[1]) ELSE NaN

\* Date.prototype.getMonth (0-indexed)
getMonth(date) ==
  IF date.valid THEN Num(CivilFromDays(date.time \div 86400)[2] - 1) ELSE NaN

\* Date.prototype.getTime, in seconds
getTime(date) == IF date.valid THEN Num(date.time) ELSE NaN

\* a Date.parse that reads a string that is not a date as the epoch
DateParseEpoch(s) ==
  IF s.iso # <<>>
    THEN DateOf(DaysFromCivil(s.iso[1], s.iso[2], s.iso[3]) * 86400)
    ELSE DateOf(0)

\* Date.parse of a string
DateParse(s) ==
  IF s.iso # <<>>
    THEN DateOf(DaysFromCivil(s.iso[1], s.iso[2], s.iso[3]) * 86400)
    ELSE InvalidDate

\* new Date(seconds * 1000)
DateFromSeconds(sec) == DateOf(sec)

\* new Date(value)
NewDate(v) ==
  CASE v.t = "Date" -> v
    [] v.t = "string" -> DateParse(v)
    [] v.t = "undefined" -> InvalidDate
    [] v.t = "null" -> DateOf(0)
    [] v.t = "number" -> IF v.nan THEN InvalidDate ELSE DateOf(v.n \div 1000)
    [] OTHER -> InvalidDate   \* an object: its primitive is not a date string

\* new Date(year, monthIndex, 1): monthIndex outside 0..11 carries into the year
NewDateYM(year, monthIndex) ==
  DateOf(DaysFromCivil(year + (monthIndex \div 12), (monthIndex % 12) + 1, 1) * 86400)

\* date-fns parseISO
parseISO(s) == DateParse(s)

\* date-fns isValid
isValid(date) == date.valid

MONTHS == <<"Jan", "Feb", "Mar", "Apr", "May", "Jun",
            "Jul", "Aug", "Sep", "Oct", "Nov", "Dec">>

\* dayjs(date).format("MMM")
DayjsFormatMMM(date) ==
  IF date.valid THEN MONTHS[getMonth(date).n + 1] ELSE "Invalid Date"

(***************************************************************************)
(* Date normalisers                                                        *)
(***************************************************************************)
\* parseDate of ExpenseChart, SpendingCategoryChart, SavingsTrendChart,
\* LatestTransactionsTable and TotalBalanceCard (the five copies are identical)
parseDate(raw) ==
  IF ~Truthy(raw) THEN Null
  ELSE IF raw.t = "Timestamp" THEN DateFromSeconds(raw.seconds)
  ELSE IF raw.t = "string" THEN NewDate(raw)
  ELSE IF raw.t = "Date" THEN raw
  ELSE Null

\* parseIncomeDate of IncomeChart
parseIncomeDate(raw) ==
  IF ~Truthy(raw) THEN Null
  ELSE IF raw.t = "Timestamp" THEN DateFromSeconds(raw.seconds)
  ELSE IF raw.t = "string" THEN parseISO(raw)
  ELSE IF raw.t = "Date" THEN raw
  ELSE Null

\* the conversion inlined in IncomeExpenseChart and in DashboardPage
InlineDate(raw) ==
  IF Truthy(OptSeconds(raw))
    THEN DateFromSeconds(raw.seconds)
    ELSE NewDate(raw)

\* the conversion inlined in InsightSummaryCard
InsightDate(raw) ==
  IF Truthy(OptSeconds(raw)) THEN DateFromSeconds(raw.seconds)
  ELSE IF raw.t = "string" THEN NewDate(raw)
  ELSE IF raw.t = "Date" THEN raw
  ELSE Null

\* parseFirestoreDate of the summary endpoint
parseFirestoreDate(raw) ==
  IF ~Truthy(raw) THEN Null
  ELSE IF raw.t = "string" THEN NewDate(raw)
  ELSE IF raw.t = "Timestamp" THEN DateFromSeconds(raw.seconds)
  ELSE IF raw.t = "object" THEN DateFromSeconds(raw.seconds)
  ELSE Null

\* parseDateParam of the summary endpoint
parseDateParam(param) ==
  IF ~Truthy(param) THEN Null
  ELSE LET d == NewDate(param) IN IF d.valid THEN d ELSE Null

(***************************************************************************)
(* The record store                                                        *)
(***************************************************************************)
Users == {"u1", "u2"}

\* the account that is logged in
LoggedIn == {"u1"}

\* instants, in seconds since the epoch
T_2024_01_15 == DaysFromCivil(2024, 1, 15) * 86400

T_2024_03_10 == DaysFromCivil(2024, 3, 10) * 86400

T_2023_12_05 == DaysFromCivil(2023, 12, 5) * 86400

\* the values a stored date field takes besides a Timestamp of 2024-01-15
OtherDates ==
  { Null,
    Str("not-a-date"),
    Num(12345),
    IsoStr("2024-01-15", <<2024, 1, 15>>),
    DateOf(T_2024_01_15),
    SecondsObj(T_2024_01_15),
    Timestamp(T_2024_03_10),
    Timestamp(T_2023_12_05),
    Timestamp(0) }

\* a well-formed income document, as AddIncomeForm writes it
BaseIncome ==
  [userId |-> "u1", amount |-> Num(100), source |-> Str("Salary"),
   date |-> Timestamp(T_2024_01_15)]

\* a well-formed expense document, as AddExpenseForm writes it
BaseExpense ==
  [userId |-> "u1", amount |-> Num(40), category |-> Str("Food"),
   date |-> Timestamp(T_2024_01_15)]

\* The store enforces no schema: a document is a well-formed one, or one that
\* differs from it in one field (owner, amount, date, label), or lacks a field.
IncomeDocs ==
  {BaseIncome}
    \cup {[BaseIncome EXCEPT !.userId = "u2"]}
    \cup {[BaseIncome EXCEPT !.amount = a] : a \in {Num(25), Str("abc")}}
    \cup {[f \in {"userId", "source", "date"} |-> BaseIncome[f]]}
    \cup {[f \in {"userId", "source", "amount"} |-> BaseIncome[f]]}
    \cup {[BaseIncome EXCEPT !.date = d] : d \in OtherDates}

ExpenseDocs ==
  {BaseExpense}
    \cup {[BaseExpense EXCEPT !.userId = "u2"]}
    \cup {[BaseExpense EXCEPT !.amount = a] : a \in {Num(25), Str("abc")}}
    \cup {[BaseExpense EXCEPT !.category = Str("Rent")]}
    \cup {[f \in {"userId", "category", "date"} |-> BaseExpense[f]]}
    \cup {[f \in {"userId", "category", "amount"} |-> BaseExpense[f]]}
    \cup {[f \in {"userId", "amount", "date"} |-> BaseExpense[f]]}
    \cup {[BaseExpense EXCEPT !.date = d] : d \in OtherDates}

\* the store gives every document an id
Stored(collection, data) ==
  [i \in 1..Len(data) |-> [id |-> <<collection, i>>] @@ data[i]]

\* doc.data().field: an absent field reads as undefined
Field(doc, name) == IF name \in DOMAIN doc THEN doc[name] ELSE Undefined

\* a query without the where clause
Unscoped(coll, uid) == coll

\* query(collection, where("userId", "==", uid))
Owned(coll, uid) == SelectSeq(coll, LAMBDA doc : doc.userId = uid)

(***************************************************************************)
(* ExpenseChart                                                            *)
(***************************************************************************)
ChartKeys == {MONTHS[i] : i \in 1..12} \cup {"Invalid Date"}

RECURSIVE ExpenseTotals(_, _)
\* `totals` of buildMonthlyExpenseData after the first i documents
ExpenseTotals(docs, i) ==
  IF i = 0 THEN [k \in ChartKeys |-> Undefined]
  ELSE LET totals == ExpenseTotals(docs, i - 1)
           date   == parseDate(Field(docs[i], "date"))
       IN  IF ~Truthy(date) THEN totals
           ELSE LET month == DayjsFormatMMM(date)
                IN  [totals EXCEPT ![month] =
                       Plus(Or(totals[month], Num(0)),
                            ToNumber(Or(Field(docs[i], "amount"), Num(0))))]

\* a series that lists only the months some expense fell in
buildObservedMonthsOnly(docs) ==
  LET totals   == ExpenseTotals(docs, Len(docs))
      observed == SelectSeq(MONTHS, LAMBDA month : totals[month] # Undefined)
  IN  [i \in 1..Len(observed) |->
         [name |-> observed[i], value |-> Or(totals[observed[i]], Num(0))]]

buildMonthlyExpenseData(docs) ==
  LET totals == ExpenseTotals(docs, Len(docs))
  IN  [i \in 1..12 |-> [name |-> MONTHS[i], value |-> Or(totals[MONTHS[i]], Num(0))]]

\* ExpenseChart's effect
ExpenseChartState(incs, exps, uid) ==
  [op |-> "fetchMonthlyExpenses", uid |-> uid, status |-> "ok",
   data |-> buildMonthlyExpenseData(Owned(exps, uid))]

fetchMonthlyExpenses ==
  /\ output.op = "none"
  /\ output' = ExpenseChartState(incomes, expenses, user)
  /\ UNCHANGED <<incomes, expenses, user>>

(***************************************************************************)
(* IncomeChart                                                             *)
(***************************************************************************)
RECURSIVE IncomeTotals(_, _)
\* `monthly` of buildMonthlyIncomeData after the first i records; format()
\* of date-fns throws a RangeError on an invalid date
IncomeTotals(recs, i) ==
  IF i = 0 THEN [thrown |-> FALSE, monthly |-> [k \in ChartKeys |-> Undefined]]
  ELSE LET acc  == IncomeTotals(recs, i - 1)
           date == parseIncomeDate(recs[i].date)
       IN  IF acc.thrown THEN acc
           ELSE IF ~Truthy(date) \/ ~isValid(date) THEN acc
           ELSE LET month  == MONTHS[getMonth(date).n + 1]
                    amount == ToNumber(Or(recs[i].amount, Num(0)))
                IN  [acc EXCEPT !.monthly[month] =
                       Plus(Or(acc.monthly[month], Num(0)), amount)]

buildMonthlyIncomeData(recs) ==
  LET acc == IncomeTotals(recs, Len(recs))
  IN  [thrown |-> acc.thrown,
       data |-> [i \in 1..12 |->
                   [name |-> MONTHS[i], value |-> Or(acc.monthly[MONTHS[i]], Num(0))]]]

\* IncomeChart's effect
IncomeChartState(incs, exps, uid) ==
  LET docs       == Owned(incs, uid)
      rawIncomes == [i \in 1..Len(docs) |->
                       [amount |-> ToNumber(Or(Field(docs[i], "amount"), Num(0))),
                        date   |-> Field(docs[i], "date")]]
      built      == buildMonthlyIncomeData(rawIncomes)
  IN  IF built.thrown
        THEN [op |-> "fetchIncome", uid |-> uid, status |-> "failed"]
        ELSE [op |-> "fetchIncome", uid |-> uid, status |-> "ok", data |-> built.data]

fetchIncome ==
  /\ output.op = "none"
  /\ output' = IncomeChartState(incomes, expenses, user)
  /\ UNCHANGED <<incomes, expenses, user>>

(***************************************************************************)
(* IncomeExpenseChart                                                      *)
(***************************************************************************)
Years == {2023, 2024}

\* the (month, year) pairs the dashboard's selectors are moved to; months
\* are 0-indexed
Selections ==
  { [month |-> 0, year |-> 2024],
    [month |-> 11, year |-> 2023],
    [month |-> 11, year |-> 2024] }

RECURSIVE SumInline(_, _, _, _)
\* monthly[..].income (or .expenses) of fetchIncomeExpenseData after the
\* first i documents of one snapshot
SumInline(docs, i, year, monthly) ==
  IF i = 0 THEN monthly
  ELSE LET acc == SumInline(docs, i - 1, year, monthly)
           dt  == InlineDate(Field(docs[i], "date"))
       IN  IF getFullYear(dt) = Num(year)
             THEN LET monthIdx == getMonth(dt).n
                  IN  [acc EXCEPT ![monthIdx] =
                         Plus(@, ToNumber(Or(Field(docs[i], "amount"), Num(0))))]
             ELSE acc

\* IncomeExpenseChart's effect
IncomeExpenseChartState(incs, exps, uid, year) ==
  LET zero       == [i \in 0..11 |-> Num(0)]
      incomeSnap == Owned(incs, uid)
      expenseSnap == Owned(exps, uid)
      income     == SumInline(incomeSnap, Len(incomeSnap), year, zero)
      expense    == SumInline(expenseSnap, Len(expenseSnap), year, zero)
      chartData  == [i \in 1..12 |->
                       [month |-> MONTHS[i], income |-> income[i - 1],
                        expenses |-> expense[i - 1]]]
  IN  [op |-> "fetchIncomeExpenseData", uid |-> uid, year |-> year,
       status |-> "ok", data |-> chartData]

fetchIncomeExpenseData(year) ==
  /\ output.op = "none"
  /\ output' = IncomeExpenseChartState(incomes, expenses, user, year)
  /\ UNCHANGED <<incomes, expenses, user>>

(***************************************************************************)
(* SavingsTrendChart                                                       *)
(***************************************************************************)
RECURSIVE SumSavings(_, _, _, _)
\* monthly[..].income (or .expense) of fetchSavingsData after the first i
\* documents of one snapshot
SumSavings(docs, i, year, monthly) ==
  IF i = 0 THEN monthly
  ELSE LET acc    == SumSavings(docs, i - 1, year, monthly)
           amount == Field(docs[i], "amount")
           parsed == parseDate(Field(docs[i], "date"))
       IN  IF Truthy(parsed) /\ getFullYear(parsed) = Num(year) /\ amount.t = "number"
             THEN [acc EXCEPT ![getMonth(parsed).n] = Plus(@, amount)]
             ELSE acc

\* SavingsTrendChart's effect
SavingsTrendChartState(incs, exps, uid, year) ==
  LET zero        == [i \in 0..11 |-> Num(0)]
      incomeSnap  == Owned(incs, uid)
      expenseSnap == Owned(exps, uid)
      income      == SumSavings(incomeSnap, Len(incomeSnap), year, zero)
      expense     == SumSavings(expenseSnap, Len(expenseSnap), year, zero)
      monthly     == [i \in 1..12 |->
                        [month |-> MONTHS[i], income |-> income[i - 1],
                         expense |-> expense[i - 1],
                         savings |-> Minus(income[i - 1], expense[i - 1])]]
  IN  [op |-> "fetchSavingsData", uid |-> uid, year |-> year,
       status |-> "ok", data |-> monthly]

fetchSavingsData(year) ==
  /\ output.op = "none"
  /\ output' = SavingsTrendChartState(incomes, expenses, user, year)
  /\ UNCHANGED <<incomes, expenses, user>>

(***************************************************************************)
(* JavaScript objects used as maps, and Array.prototype.sort               *)
(***************************************************************************)
\* An object with string keys is the sequence of its entries in insertion
\* order, which is the order Object.entries and JSON.stringify follow.
HasKey(entries, key) == \E i \in 1..Len(entries) : entries[i].name = key

\* entries[key]
Get(entries, key) ==
  IF HasKey(entries, key)
    THEN entries[CHOOSE i \in 1..Len(entries) : entries[i].name = key].value
    ELSE Undefined

\* entries[key] = value
Put(entries, key, value) ==
  IF HasKey(entries, key)
    THEN [i \in 1..Len(entries) |->
            IF entries[i].name = key THEN [name |-> key, value |-> value]
            ELSE entries[i]]
    ELSE Append(entries, [name |-> key, value |-> value])

RECURSIVE InsertDesc(_, _)
\* x put into the descending sequence s, before the first element whose key is
\* not greater than x's
InsertDesc(x, s) ==
  IF s = <<>> THEN <<x>>
  ELSE IF Head(s).key > x.key THEN <<Head(s)>> \o InsertDesc(x, Tail(s))
  ELSE <<x>> \o s

RECURSIVE SortPairs(_)
SortPairs(s) ==
  IF s = <<>> THEN <<>> ELSE InsertDesc(Head(s), SortPairs(Tail(s)))

\* s.sort((a, b) => key(b) - key(a)) for the keys in `keys`; the sort is stable
SortDesc(s, keys) ==
  LET sorted == SortPairs([i \in 1..Len(s) |-> [key |-> keys[i], item |-> s[i]]])
  IN  [i \in 1..Len(s) |-> sorted[i].item]

(***************************************************************************)
(* SpendingCategoryChart                                                   *)
(***************************************************************************)
RECURSIVE CategoryMap(_, _, _, _)
\* categoryMap of fetchCategoryData after the first i documents
CategoryMap(docs, i, month, year) ==
  IF i = 0 THEN <<>>
  ELSE LET categoryMap == CategoryMap(docs, i - 1, month, year)
           amount      == Field(docs[i], "amount")
           parsedDate  == parseDate(Field(docs[i], "date"))
       IN  IF /\ Truthy(parsedDate)
              /\ getFullYear(parsedDate) = Num(year)
              /\ getMonth(parsedDate) = Num(month)
              /\ amount.t = "number"
             THEN LET cat == Or(Field(docs[i], "category"), Str("Uncategorized")).text
                  IN  Put(categoryMap, cat,
                          Plus(Or(Get(categoryMap, cat), Num(0)), amount))
             ELSE categoryMap

EntryValue(entries) == [i \in 1..Len(entries) |-> entries[i].value.n]

\* SpendingCategoryChart's effect
SpendingCategoryChartState(incs, exps, uid, month, year) ==
  LET snapshot      == Owned(exps, uid)
      categoryMap   == CategoryMap(snapshot, Len(snapshot), month, year)
      formattedData == SortDesc(categoryMap, EntryValue(categoryMap))
  IN  [op |-> "fetchCategoryData", uid |-> uid, month |-> month,
       year |-> year, status |-> "ok", data |-> formattedData]

fetchCategoryData(month, year) ==
  /\ output.op = "none"
  /\ output' = SpendingCategoryChartState(incomes, expenses, user, month, year)
  /\ UNCHANGED <<incomes, expenses, user>>

(***************************************************************************)
(* LatestTransactionsTable                                                 *)
(***************************************************************************)
\* transactions.slice(0, 50)
DisplayLimit == 50

\* s.slice(0, n)
Slice(s, n) == SubSeq(s, 1, IF Len(s) < n THEN Len(s) ELSE n)

\* negative zero
NegZero == [t |-> "number", nan |-> FALSE, n |-> 0, negative |-> TRUE]

\* -x
Negate(x) ==
  IF x.nan THEN NaN ELSE IF x.n = 0 THEN NegZero ELSE Num(0 - x.n)

RECURSIVE IncomeRows(_, _, _, _, _)
\* the rows pushed for the first i documents of the incomes collection
IncomeRows(coll, i, uid, month, year) ==
  IF i = 0 THEN <<>>
  ELSE LET rows == IncomeRows(coll, i - 1, uid, month, year)
           d    == coll[i]
           dt   == parseDate(Field(d, "date"))
       IN  IF /\ d.userId = uid
              /\ Truthy(dt)
              /\ getFullYear(dt) = Num(year)
              /\ getMonth(dt) = Num(month)
              /\ Field(d, "amount").t = "number"
             THEN Append(rows,
                    [id |-> d.id,
                     title |-> Or(Or(Field(d, "title"), Field(d, "source")), Str("Income")),
                     amount |-> d.amount,
                     type |-> Str("Income"),
                     date |-> dt])
             ELSE rows

RECURSIVE ExpenseRows(_, _, _, _, _)
\* the rows pushed for the first i documents of the expenses collection
ExpenseRows(coll, i, uid, month, year) ==
  IF i = 0 THEN <<>>
  ELSE LET rows == ExpenseRows(coll, i - 1, uid, month, year)
           d    == coll[i]
           dt   == parseDate(Field(d, "date"))
       IN  IF /\ d.userId = uid
              /\ Truthy(dt)
              /\ getFullYear(dt) = Num(year)
              /\ getMonth(dt) = Num(month)
              /\ Field(d, "amount").t = "number"
             THEN Append(rows,
                    [id |-> d.id,
                     title |-> Or(Or(Field(d, "title"), Field(d, "category")), Str("Expense")),
                     amount |-> Negate(d.amount),
                     type |-> Or(Field(d, "category"), Str("Expense")),
                     date |-> dt])
             ELSE rows

RowTime(rows) == [i \in 1..Len(rows) |-> rows[i].date.time]

\* LatestTransactionsTable's effect
LatestTransactionsTableState(incs, exps, uid, month, year) ==
  LET pushed       == IncomeRows(incs, Len(incs), uid, month, year)
                        \o ExpenseRows(exps, Len(exps), uid, month, year)
      transactions == SortDesc(pushed, RowTime(pushed))
  IN  [op |-> "fetchTransactions", uid |-> uid, month |-> month,
       year |-> year, status |-> "ok",
                    allMonthlyTransactions |-> transactions,
                    transactionsToDisplay |-> Slice(transactions, DisplayLimit)]

fetchTransactions(month, year) ==
  /\ output.op = "none"
  /\ output' = LatestTransactionsTableState(incomes, expenses, user, month, year)
  /\ UNCHANGED <<incomes, expenses, user>>

(***************************************************************************)
(* TotalBalanceCard                                                        *)
(***************************************************************************)
RECURSIVE SumMonth(_, _, _, _)
\* monthIncome (or monthExpense) of fetchData after the first i documents
SumMonth(docs, i, targetMonth, targetYear) ==
  IF i = 0 THEN Num(0)
  ELSE LET acc   == SumMonth(docs, i - 1, targetMonth, targetYear)
           entry == docs[i]
           dt    == parseDate(Field(entry, "date"))
       IN  IF /\ Truthy(dt)
              /\ getMonth(dt) = targetMonth
              /\ getFullYear(dt) = targetYear
              /\ Field(entry, "amount").t = "number"
             THEN Plus(acc, entry.amount)
             ELSE acc

\* a / b rounded to the nearest integer, halves away from zero (b > 0)
RoundDiv(a, b) ==
  IF a >= 0 THEN (2 * a + b) \div (2 * b) ELSE 0 - ((2 * (0 - a) + b) \div (2 * b))

Abs(x) == IF x < 0 THEN 0 - x ELSE x

\* one pass of the loop `for (let i = 5; i >= 0; i--)` of fetchData
BalancePass(incomeSnap, expenseSnap, month, year, i) ==
  LET targetDate   == NewDateYM(year, month - i)
      targetMonth  == getMonth(targetDate)
      targetYear   == getFullYear(targetDate)
      monthIncome  == SumMonth(incomeSnap, Len(incomeSnap), targetMonth, targetYear)
      monthExpense == SumMonth(expenseSnap, Len(expenseSnap), targetMonth, targetYear)
  IN  [month |-> MONTHS[targetMonth.n + 1],
       balance |-> Minus(monthIncome, monthExpense),
       income |-> monthIncome, expense |-> monthExpense,
       current |-> targetMonth = Num(month) /\ targetYear = Num(year)]

\* the tail of fetchData, after the loop.  `change` is kept in tenths of a
\* percent.
BalanceSummary(passes, uid, month, year) ==
  LET balances    == [k \in 1..6 |-> [month |-> passes[k].month,
                                      balance |-> passes[k].balance]]
      thisMonthIncome  == IF passes[6].current THEN passes[6].income ELSE Num(0)
      thisMonthExpense == IF passes[6].current THEN passes[6].expense ELSE Num(0)
      latestBalance == Minus(thisMonthIncome, thisMonthExpense)
      prevBalance   == Or(balances[5].balance, Num(0))
      change ==
        IF prevBalance.n # 0
          THEN RoundDiv((latestBalance.n - prevBalance.n) * 1000, Abs(prevBalance.n))
          ELSE IF latestBalance.n # 0 THEN 1000 ELSE 0
  IN  [op |-> "fetchData", uid |-> uid, month |-> month, year |-> year,
       status |-> "ok", data |-> balances,
                    currentIncome |-> thisMonthIncome,
                    currentExpense |-> thisMonthExpense,
                    currentBalance |-> latestBalance,
                    change |-> change]

\* TotalBalanceCard's effect
TotalBalanceCardState(incs, exps, uid, month, year) ==
  LET incomeSnap  == Owned(incs, uid)
      expenseSnap == Owned(exps, uid)
      passes      == [k \in 1..6 |-> BalancePass(incomeSnap, expenseSnap, month, year, 6 - k)]
  IN  BalanceSummary(passes, uid, month, year)

fetchData(month, year) ==
  /\ output.op = "none"
  /\ output' = TotalBalanceCardState(incomes, expenses, user, month, year)
  /\ UNCHANGED <<incomes, expenses, user>>

(***************************************************************************)
(* DashboardPage                                                           *)
(***************************************************************************)
RECURSIVE SumCurrentExpenses(_, _, _, _)
\* `total` of DashboardPage.fetchExpenses after the first i documents
SumCurrentExpenses(docs, i, selectedMonth, selectedYear) ==
  IF i = 0 THEN Num(0)
  ELSE LET total == SumCurrentExpenses(docs, i - 1, selectedMonth, selectedYear)
           dt    == InlineDate(Field(docs[i], "date"))
       IN  IF getFullYear(dt) = Num(selectedYear) /\ getMonth(dt) = Num(selectedMonth)
             THEN Plus(total, ToNumber(Or(Field(docs[i], "amount"), Num(0))))
             ELSE total

\* DashboardPage's effect
DashboardPageState(incs, exps, uid, selectedMonth, selectedYear) ==
  LET expenseSnap == Owned(exps, uid)
  IN  [op |-> "fetchExpenses", uid |-> uid, month |-> selectedMonth,
       year |-> selectedYear, status |-> "ok",
                    currentExpenses |-> SumCurrentExpenses(expenseSnap, Len(expenseSnap),
                                                           selectedMonth, selectedYear)]

fetchExpenses(selectedMonth, selectedYear) ==
  /\ output.op = "none"
  /\ output' = DashboardPageState(incomes, expenses, user, selectedMonth, selectedYear)
  /\ UNCHANGED <<incomes, expenses, user>>

(***************************************************************************)
(* InsightSummaryCard                                                      *)
(***************************************************************************)
\* A text is the sequence of its lines (the text split at "\n"); a line is
\* the sequence of its characters.
IsSpace(c) == c = " "

RECURSIVE TrimStart(_)
TrimStart(line) ==
  IF line # <<>> /\ IsSpace(Head(line)) THEN TrimStart(Tail(line)) ELSE line

RECURSIVE TrimEnd(_)
TrimEnd(line) ==
  IF line # <<>> /\ IsSpace(line[Len(line)])
    THEN TrimEnd(SubSeq(line, 1, Len(line) - 1))
    ELSE line

\* String.prototype.trim of one line
Trim(line) == TrimEnd(TrimStart(line))

RECURSIVE TrimTextStart(_)
TrimTextStart(lines) ==
  IF Len(lines) > 1 /\ TrimStart(Head(lines)) = <<>>
    THEN TrimTextStart(Tail(lines))
    ELSE <<TrimStart(Head(lines))>> \o Tail(lines)

RECURSIVE TrimTextEnd(_)
TrimTextEnd(lines) ==
  IF Len(lines) > 1 /\ TrimEnd(lines[Len(lines)]) = <<>>
    THEN TrimTextEnd(SubSeq(lines, 1, Len(lines) - 1))
    ELSE SubSeq(lines, 1, Len(lines) - 1) \o <<TrimEnd(lines[Len(lines)])>>

\* String.prototype.trim of a text ("\n" is white space)
TrimText(lines) == TrimTextEnd(TrimTextStart(lines))

\* line.replace(/^\*\s*/, "")
StripMarker(line) ==
  IF line # <<>> /\ Head(line) = "*" THEN TrimStart(Tail(line)) ELSE line

\* line.trim().startsWith("*")
IsBullet(line) == Trim(line) # <<>> /\ Head(Trim(line)) = "*"

\* content.split("\n").filter(...).map(...)
ParseBullets(lines) ==
  LET kept == SelectSeq(lines, IsBullet)
  IN  [i \in 1..Len(kept) |-> Trim(StripMarker(kept[i]))]

\* what POST /api/insight answers
Text(lines) == [t |-> "text", lines |-> lines]

InsightResponses ==
  { [ok |-> FALSE],
    [ok |-> TRUE, content |-> Undefined],
    [ok |-> TRUE, content |-> Text(<< <<"*", " ", "a">>, <<"b">> >>)],
    [ok |-> TRUE, content |-> Text(<< <<" ">>, <<"b">> >>)] }

\* the lines an answer is made of: a bullet, an indented bullet, plain text
ContentLines == { <<"*", "a">>, <<" ", "*", " ", "b">>, <<"c">> }

\* lines of an answer
MaxLines == 4

\* answers of one to MaxLines lines
InsightContents ==
  {[ok |-> TRUE, content |-> Text(lines)] :
     lines \in UNION {[1..n -> ContentLines] : n \in 1..MaxLines}}

RECURSIVE SumInsight(_, _, _, _)
\* totalIncome (or totalExpense) of fetchInsight after the first i documents
SumInsight(docs, i, month, year) ==
  IF i = 0 THEN Num(0)
  ELSE LET total == SumInsight(docs, i - 1, month, year)
           d     == docs[i]
           dt    == InsightDate(Field(d, "date"))
       IN  IF /\ Truthy(dt)
              /\ getFullYear(dt) = Num(year)
              /\ getMonth(dt) = Num(month)
              /\ Field(d, "amount").t = "number"
             THEN Plus(total, d.amount)
             ELSE total

\* InsightSummaryCard's effect
InsightSummaryCardState(incs, exps, uid, month, year, res) ==
  LET incomeSnap   == Owned(incs, uid)
      expenseSnap  == Owned(exps, uid)
      totalIncome  == SumInsight(incomeSnap, Len(incomeSnap), month, year)
      totalExpense == SumInsight(expenseSnap, Len(expenseSnap), month, year)
      prompt       == [month |-> month, year |-> year, totalIncome |-> totalIncome,
                       totalExpense |-> totalExpense,
                       savings |-> Minus(totalIncome, totalExpense)]
      call         == [op |-> "fetchInsight", uid |-> uid, month |-> month,
                       year |-> year, prompt |-> prompt, loading |-> FALSE]
  IN  IF ~res.ok
             THEN call @@ [status |-> "failed", insightPoints |-> <<>>,
                           error |-> Str("Failed to analyze your data. Please try again later.")]
           ELSE IF res.content.t = "undefined" \/ TrimText(res.content.lines) = << <<>> >>
             THEN call @@ [status |-> "ok", insightPoints |-> <<>>,
                           error |-> Str("No insight returned from Gemini.")]
           ELSE call @@ [status |-> "ok",
                         insightPoints |-> Slice(ParseBullets(TrimText(res.content.lines)), 3),
                         error |-> Null]

fetchInsight(month, year, res) ==
  /\ output.op = "none"
  /\ output' = InsightSummaryCardState(incomes, expenses, user, month, year, res)
  /\ UNCHANGED <<incomes, expenses, user>>

\* the same run of the effect, with the answer kept beside the state
fetchInsightAnswered(month, year, res) ==
  /\ output.op = "none"
  /\ output' = [response |-> res]
                  @@ InsightSummaryCardState(incomes, expenses, user, month,
                                             year, res)
  /\ UNCHANGED <<incomes, expenses, user>>

(***************************************************************************)
(* GET /api/stats/summary                                                  *)
(***************************************************************************)
testIncomeAmount == 5000

testExpenseAmount == 2000

\* a >= b on Dates (the comparison of their time values)
DateGe(a, b) == a.valid /\ b.valid /\ a.time >= b.time

\* a <= b on Dates
DateLe(a, b) == a.valid /\ b.valid /\ a.time <= b.time

\* a window that is open at both ends
isWithinRangeExclusive(rawDate, fromDate, toDate) ==
  LET date == parseFirestoreDate(rawDate)
  IN  IF ~Truthy(date) THEN FALSE
      ELSE /\ (~Truthy(fromDate) \/ (DateGe(date, fromDate) /\ date # fromDate))
           /\ (~Truthy(toDate) \/ (DateLe(date, toDate) /\ date # toDate))

\* isWithinRange, with the fromDate and toDate it closes over
isWithinRange(rawDate, fromDate, toDate) ==
  LET date == parseFirestoreDate(rawDate)
  IN  IF ~Truthy(date) THEN FALSE
      ELSE /\ (~Truthy(fromDate) \/ DateGe(date, fromDate))
           /\ (~Truthy(toDate) \/ DateLe(date, toDate))

RECURSIVE SummaryIncome(_, _, _, _)
\* totalIncome after the first i income documents
SummaryIncome(docs, i, fromDate, toDate) ==
  IF i = 0 THEN Plus(Num(0), Num(testIncomeAmount))
  ELSE LET totalIncome   == SummaryIncome(docs, i - 1, fromDate, toDate)
           data          == docs[i]
           isValidAmount == Field(data, "amount").t = "number"
           isInRange     == isWithinRange(Field(data, "date"), fromDate, toDate)
       IN  IF isValidAmount /\ isInRange THEN Plus(totalIncome, data.amount)
           ELSE totalIncome

RECURSIVE SummaryExpense(_, _, _, _)
\* totalExpense and categoryTotals after the first i expense documents
SummaryExpense(docs, i, fromDate, toDate) ==
  IF i = 0
    THEN [totalExpense |-> Plus(Num(0), Num(testExpenseAmount)),
          categoryTotals |-> Put(<<>>, "Test Category", Num(testExpenseAmount))]
  ELSE LET acc           == SummaryExpense(docs, i - 1, fromDate, toDate)
           data          == docs[i]
           isValidAmount == Field(data, "amount").t = "number"
           isInRange     == isWithinRange(Field(data, "date"), fromDate, toDate)
       IN  IF isValidAmount /\ isInRange
             THEN LET category == IF Field(data, "category").t = "string"
                                    THEN data.category.text ELSE "Other"
                      prevCategoryTotal == Or(Get(acc.categoryTotals, category), Num(0))
                  IN  [totalExpense |-> Plus(acc.totalExpense, data.amount),
                       categoryTotals |-> Put(acc.categoryTotals, category,
                                              Plus(prevCategoryTotal, data.amount))]
             ELSE acc

\* isNaN(x) ? 0 : x
ZeroIfNaN(x) == IF x.nan THEN Num(0) ELSE x

\* the values a from or to query parameter takes
DateParams ==
  { Null,
    Str("soon"),
    IsoStr("2024-01-15", <<2024, 1, 15>>) }

\* the query parameters a request carries
Requests ==
  {[uid |-> Null, from |-> Null, to |-> Null]}
    \cup [uid : {Str(u) : u \in Users}, from : DateParams, to : DateParams]

\* what the handler of GET /api/stats/summary?uid&from&to answers
SummaryResponse(incs, exps, uid, from, to) ==
  LET fromDate    == parseDateParam(from)
      toDate      == parseDateParam(to)
      incomeSnap  == Owned(incs, uid.text)
      expenseSnap == Owned(exps, uid.text)
      totalIncome == SummaryIncome(incomeSnap, Len(incomeSnap), fromDate, toDate)
      spent       == SummaryExpense(expenseSnap, Len(expenseSnap), fromDate, toDate)
      finalTotalIncome  == ToNumber(totalIncome)
      finalTotalExpense == ToNumber(spent.totalExpense)
      finalSavings      == Minus(finalTotalIncome, finalTotalExpense)
      summary == [totalIncome |-> ZeroIfNaN(finalTotalIncome),
                  totalExpense |-> ZeroIfNaN(finalTotalExpense),
                  savings |-> ZeroIfNaN(finalSavings),
                  categoryTotals |-> spent.categoryTotals]
      \* console.log("Income doc:", {..., isInRange}) and "Expense doc:"
      log == [incomes |-> [i \in 1..Len(incomeSnap) |->
                             [date |-> Field(incomeSnap[i], "date"),
                              isInRange |-> isWithinRange(Field(incomeSnap[i], "date"),
                                                          fromDate, toDate)]],
              expenses |-> [i \in 1..Len(expenseSnap) |->
                              [date |-> Field(expenseSnap[i], "date"),
                               isInRange |-> isWithinRange(Field(expenseSnap[i], "date"),
                                                           fromDate, toDate)]]]
  IN  IF ~Truthy(uid)
        THEN [op |-> "GET", uid |-> uid, from |-> from, to |-> to, status |-> 400,
              body |-> [error |-> "Missing 'uid' parameter."]]
        ELSE [op |-> "GET", uid |-> uid, from |-> from, to |-> to, status |-> 200,
              body |-> summary, log |-> log]

\* one request is served
GET(uid, from, to) ==
  /\ output.op = "none"
  /\ output' = SummaryResponse(incomes, expenses, uid, from, to)
  /\ UNCHANGED <<incomes, expenses, user>>

(***************************************************************************)
(* The date normalisers, applied to the date of one stored document        *)
(***************************************************************************)
StoredDates ==
  {Field(incomes[i], "date") : i \in 1..Len(incomes)}
    \cup {Field(expenses[i], "date") : i \in 1..Len(expenses)}

\* const date = parseDate(expense.date)
callParseDate(raw) ==
  /\ output.op = "none"
  /\ output' = [op |-> "parseDate", raw |-> raw, result |-> parseDate(raw)]
  /\ UNCHANGED <<incomes, expenses, user>>

\* const date = parseIncomeDate(income.date)
callParseIncomeDate(raw) ==
  /\ output.op = "none"
  /\ output' = [op |-> "parseIncomeDate", raw |-> raw, result |-> parseIncomeDate(raw)]
  /\ UNCHANGED <<incomes, expenses, user>>

\* const dt = data.date?.seconds ? new Date(...) : new Date(data.date)
callInlineDate(raw) ==
  /\ output.op = "none"
  /\ output' = [op |-> "InlineDate", raw |-> raw, result |-> InlineDate(raw)]
  /\ UNCHANGED <<incomes, expenses, user>>

\* let dt = null; if (rawDate?.seconds) ... else if ... else if ...
callInsightDate(raw) ==
  /\ output.op = "none"
  /\ output' = [op |-> "InsightDate", raw |-> raw, result |-> InsightDate(raw)]
  /\ UNCHANGED <<incomes, expenses, user>>

\* const date = parseFirestoreDate(rawDate)
callParseFirestoreDate(raw) ==
  /\ output.op = "none"
  /\ output' = [op |-> "parseFirestoreDate", raw |-> raw,
                result |-> parseFirestoreDate(raw)]
  /\ UNCHANGED <<incomes, expenses, user>>

(***************************************************************************)
(* Strings of the entry forms                                              *)
(***************************************************************************)
\* the texts the forms handle, each with its characters
StringTable ==
  { <<"", <<>>>>,
    <<" ", <<" ">>>>,
    <<"abc", <<"a", "b", "c">>>>,
    <<"0", <<"0">>>>,
    <<"-5", <<"-", "5">>>>,
    <<"0.5", <<"0", ".", "5">>>>,
    <<"12.50", <<"1", "2", ".", "5", "0">>>>,
    <<"1,200", <<"1", ",", "2", "0", "0">>>>,
    <<"1200", <<"1", "2", "0", "0">>>>,
    <<" 7 ", <<" ", "7", " ">>>>,
    <<"7", <<"7">>>>,
    <<" Gift ", <<" ", "G", "i", "f", "t", " ">>>>,
    <<"Gift", <<"G", "i", "f", "t">>>>,
    <<"Date", <<"D", "a", "t", "e">>>>,
    <<"Title", <<"T", "i", "t", "l", "e">>>>,
    <<"Type", <<"T", "y", "p", "e">>>>,
    <<"Amount", <<"A", "m", "o", "u", "n", "t">>>>,
    <<"Salary", <<"S", "a", "l", "a", "r", "y">>>>,
    <<"Food", <<"F", "o", "o", "d">>>>,
    <<"Rent", <<"R", "e", "n", "t">>>>,
    <<"Income", <<"I", "n", "c", "o", "m", "e">>>>,
    <<"Expense", <<"E", "x", "p", "e", "n", "s", "e">>>>,
    <<"Housing", <<"H", "o", "u", "s", "i", "n", "g">>>>,
    <<"a\"b,c", <<"a", "\"", "b", ",", "c">>>> }

CharsOf(text) == (CHOOSE p \in StringTable : p[1] = text)[2]

TextOf(chars) == (CHOOSE p \in StringTable : p[2] = chars)[1]

\* String.prototype.trim
TrimString(text) == TextOf(Trim(CharsOf(text)))

Digits == {"0", "1", "2", "3", "4", "5", "6", "7", "8", "9"}

DigitValue(c) ==
  CASE c = "0" -> 0 [] c = "1" -> 1 [] c = "2" -> 2 [] c = "3" -> 3
    [] c = "4" -> 4 [] c = "5" -> 5 [] c = "6" -> 6 [] c = "7" -> 7
    [] c = "8" -> 8 [] c = "9" -> 9

\* a comma that stands between two digits: /(?<=\d),(?=\d)/
IsDigitComma(chars, i) ==
  /\ chars[i] = ","
  /\ i > 1 /\ chars[i - 1] \in Digits
  /\ i < Len(chars) /\ chars[i + 1] \in Digits

RECURSIVE RemoveDigitCommas(_, _)
\* raw.replace(/(?<=\d),(?=\d)/g, ""), from character i on
RemoveDigitCommas(chars, i) ==
  IF i > Len(chars) THEN <<>>
  ELSE (IF IsDigitComma(chars, i) THEN <<>> ELSE <<chars[i]>>)
         \o RemoveDigitCommas(chars, i + 1)

\* normalizeAmount of both forms, on the characters of the text
normalizeAmount(chars) == Trim(RemoveDigitCommas(chars, 1))

RECURSIVE DigitPrefix(_)
\* the longest prefix of digits
DigitPrefix(chars) ==
  IF chars # <<>> /\ Head(chars) \in Digits
    THEN <<Head(chars)>> \o DigitPrefix(Tail(chars))
    ELSE <<>>

RECURSIVE DigitsValue(_, _)
\* the number a sequence of digits spells, after the digits read so far
DigitsValue(acc, chars) ==
  IF chars = <<>> THEN acc
  ELSE DigitsValue(acc * 10 + DigitValue(Head(chars)), Tail(chars))

\* a number with two decimals, h hundredths
Decimal(h) ==
  IF h % 100 = 0 THEN Num(h \div 100)
  ELSE [t |-> "number", nan |-> FALSE, n |-> h \div 100, cents |-> h % 100]

\* the hundredths of a number
HundredthsOf(x) ==
  x.n * 100 + (IF "cents" \in DOMAIN x THEN x.cents ELSE 0)

\* parseFloat: leading blanks, a sign, digits, a fraction; the text after the
\* number is ignored and a text without a number is NaN (the fraction is read
\* to two digits, which the texts of the forms do not exceed)
parseFloat(chars) ==
  LET t    == TrimStart(chars)
      sign == t # <<>> /\ Head(t) \in {"-", "+"}
      u    == IF sign THEN Tail(t) ELSE t
      ip   == DigitPrefix(u)
      rest == SubSeq(u, Len(ip) + 1, Len(u))
      fp   == IF rest # <<>> /\ Head(rest) = "."
                THEN DigitPrefix(Tail(rest)) ELSE <<>>
      d1   == IF Len(fp) >= 1 THEN DigitValue(fp[1]) ELSE 0
      d2   == IF Len(fp) >= 2 THEN DigitValue(fp[2]) ELSE 0
      h    == DigitsValue(0, ip) * 100 + d1 * 10 + d2
  IN  IF ip = <<>> /\ fp = <<>> THEN NaN
      ELSE Decimal(IF sign /\ Head(t) = "-" THEN 0 - h ELSE h)

\* Date.prototype.toISOString, for the dates a form holds
toISOString(date) ==
  LET ymd == CivilFromDays(date.time \div 86400)
  IN  IsoStr(IF ymd = <<2024, 1, 15>> THEN "2024-01-15T00:00:00.000Z"
             ELSE "2024-03-10T00:00:00.000Z", ymd)

\* the time of a request (new Date(), serverTimestamp())
Now == T_2024_03_10

\* addDoc: the collection with the document appended under a fresh id; the
\* native Date of a date field is stored as a Timestamp
addDoc(docs, collection, data) ==
  Append(docs,
         [id |-> <<collection, Len(docs) + 1>>]
           @@ [f \in DOMAIN data |->
                 IF f = "date" /\ data[f].t = "Date" THEN Timestamp(data[f].time)
                 ELSE data[f]])

(***************************************************************************)
(* AddIncomeForm and AddExpenseForm: handleSubmit                          *)
(***************************************************************************)
\* useAuth() before a user is signed in
NoUser == "none"

AmountTexts == {"", "abc", "0", "-5", "0.5", "12.50", "1,200", " 7 "}

CustomTexts == {"", " ", " Gift "}

FormDates == {Null, DateOf(T_2024_01_15)}

IncomeForms ==
  [amount : AmountTexts, source : {"", "Salary", "Other"},
   customSource : CustomTexts, date : FormDates]

ExpenseForms ==
  [amount : AmountTexts, category : {"", "Food", "Misc"},
   customCategory : CustomTexts, date : FormDates]

\* the forms a file is uploaded into: untouched, or with an amount typed
IncomeFormsAtUpload ==
  [amount : {"", "0.5"}, source : {"", "Other"}, customSource : {""},
   date : {DateOf(T_2024_01_15)}]

ExpenseFormsAtUpload ==
  [amount : {"", "0.5"}, category : {"", "Misc"}, customCategory : {""},
   date : {DateOf(T_2024_01_15)}]

\* isNaN(amount) || amount <= 0, without the check against zero
isRejectedAmountNegativeOnly(amount) ==
  amount.nan \/ HundredthsOf(amount) < 0

\* isNaN(amount) || amount <= 0
isRejectedAmount(amount) == amount.nan \/ HundredthsOf(amount) <= 0

\* the result of a submission: the notice shown, the documents handed to
\* addDoc, the fields of the form afterwards
Submitted(op, form, session, notice, created, after) ==
  [op |-> op, form |-> form, session |-> session, toast |-> notice,
   created |-> created, after |-> after, isSubmitting |-> FALSE]

\* AddIncomeForm.handleSubmit; stored tells whether addDoc resolves
IncomeSubmit(form, session, stored) ==
  LET op == "AddIncomeForm.handleSubmit"
      isCustomSource == form.source = "Other"
      finalSource ==
        IF isCustomSource THEN TrimString(form.customSource) ELSE form.source
      parsedAmount == parseFloat(normalizeAmount(CharsOf(form.amount)))
      data ==
        [amount |-> parsedAmount, source |-> Str(finalSource),
         date |-> toISOString(form.date), userId |-> session,
         createdAt |-> Timestamp(Now)]
  IN  IF form.amount = "" \/ finalSource = "" \/ form.date = Null
        THEN Submitted(op, form, session, <<"error", "All fields are required.">>,
                       <<>>, form)
      ELSE IF isRejectedAmount(parsedAmount)
        THEN Submitted(op, form, session, <<"error", "Enter a valid amount > 0">>,
                       <<>>, form)
      ELSE IF session = NoUser
        THEN Submitted(op, form, session, <<"error", "Login required">>, <<>>, form)
      ELSE IF stored
        THEN Submitted(op, form, session, <<"success", "Income saved">>, <<data>>,
                       [amount |-> "", source |-> "", customSource |-> "",
                        date |-> DateOf(Now)])
      ELSE Submitted(op, form, session, <<"error", "Failed to add income">>,
                     <<data>>, form)

handleSubmitIncome(form, session, stored) ==
  /\ output.op = "none"
  /\ output' = IncomeSubmit(form, session, stored)
  /\ incomes' = IF stored /\ output'.created # <<>>
                  THEN addDoc(incomes, "incomes", output'.created[1])
                  ELSE incomes
  /\ UNCHANGED <<expenses, user>>

\* AddExpenseForm.handleSubmit
ExpenseSubmit(form, session, stored) ==
  LET op == "AddExpenseForm.handleSubmit"
      showCustomInput == form.category \in {"Other", "Misc"}
      finalCategory ==
        IF showCustomInput THEN TrimString(form.customCategory)
        ELSE form.category
      numericAmount == parseFloat(normalizeAmount(CharsOf(form.amount)))
      data ==
        [amount |-> numericAmount, category |-> Str(finalCategory),
         date |-> toISOString(form.date), userId |-> session,
         createdAt |-> Timestamp(Now)]
  IN  IF form.amount = "" \/ finalCategory = "" \/ form.date = Null
        THEN Submitted(op, form, session, <<"error", "All fields are required.">>,
                       <<>>, form)
      ELSE IF isRejectedAmount(numericAmount)
        THEN Submitted(op, form, session, <<"error", "Enter a valid amount > 0">>,
                       <<>>, form)
      ELSE IF showCustomInput /\ TrimString(form.customCategory) = ""
        THEN Submitted(op, form, session, <<"error", "Please enter custom category">>,
                       <<>>, form)
      ELSE IF session = NoUser
        THEN Submitted(op, form, session, <<"error", "Login required">>, <<>>, form)
      ELSE IF stored
        THEN Submitted(op, form, session, <<"success", "Expense saved">>, <<data>>,
                       [amount |-> "", category |-> "", customCategory |-> "",
                        date |-> DateOf(Now)])
      ELSE Submitted(op, form, session, <<"error", "Failed to save expense">>,
                     <<data>>, form)

handleSubmitExpense(form, session, stored) ==
  /\ output.op = "none"
  /\ output' = ExpenseSubmit(form, session, stored)
  /\ expenses' = IF stored /\ output'.created # <<>>
                   THEN addDoc(expenses, "expenses", output'.created[1])
                   ELSE expenses
  /\ UNCHANGED <<incomes, user>>

(***************************************************************************)
(* AddIncomeForm and AddExpenseForm: handleFileUpload                      *)
(***************************************************************************)
\* the keywords of the detectors that the lower-cased text contains
Mentions(text) ==
  CASE text = "Payslip March" -> {"payslip"}
    [] text = "ZOMATO ORDER" -> {"zomato"}
    [] text = "House Rent" -> {"rent"}
    [] OTHER -> {}

detectIncomeSource(text) ==
  LET found == Mentions(text)
  IN  IF found \cap {"salary", "payslip", "ctc", "net pay"} # {}
        THEN "Salary"
      ELSE IF found \cap {"freelance", "contract", "gig"} # {}
        THEN "Freelancing"
      ELSE IF found \cap {"dividend", "interest", "roi", "return",
                          "capital gain"} # {}
        THEN "Investments Return"
      ELSE IF found \cap {"business", "invoice", "sales", "revenue"} # {}
        THEN "Business"
      ELSE IF found \cap {"gift", "present", "donation"} # {} THEN "Gift"
      ELSE "Other"

detectExpenseCategory(text) ==
  LET found == Mentions(text)
  IN  IF found \cap {"grocery", "supermarket", "mart"} # {} THEN "Groceries"
      ELSE IF found \cap {"restaurant", "food", "cafe", "dine"} # {}
        THEN "Food"
      ELSE IF found \cap {"uber", "ola", "travel", "taxi", "flight", "train",
                          "bus"} # {}
        THEN "Travel"
      ELSE IF "rent" \in found THEN "Rent"
      ELSE IF found \cap {"shopping", "store", "mall"} # {} THEN "Shopping"
      ELSE IF found \cap {"medical", "pharma", "hospital", "clinic"} # {}
        THEN "Medical"
      ELSE IF found \cap {"bill", "electricity", "water", "utility",
                          "internet"} # {}
        THEN "Bills"
      ELSE IF found \cap {"movie", "entertainment", "netflix", "spotify",
                          "show"} # {}
        THEN "Entertainment"
      ELSE "Misc"

RECURSIVE DigitsOf(_)
\* Number.prototype.toString of a natural number, as characters
DigitsOf(n) ==
  LET last == <<CHOOSE c \in Digits : DigitValue(c) = n % 10>>
  IN  IF n < 10 THEN last ELSE DigitsOf(n \div 10) \o last

\* what the request to /api/amount-extract comes to: the request itself
\* fails, or a response with a status, a content type and a body
ExtractBodies ==
  { [kind |-> "empty"],
    [kind |-> "malformed"],
    [kind |-> "json", data |-> Null],
    [kind |-> "json", data |-> [modelRaw |-> Str("Payslip March")]],
    [kind |-> "json", data |-> [amount |-> Num(0)]],
    [kind |-> "json",
     data |-> [amount |-> Num(1200), modelRaw |-> Str("House Rent")]] }

ExtractResponses ==
  {[kind |-> "rejected"]}
    \cup [kind : {"response"}, ok : BOOLEAN, isJson : BOOLEAN,
          body : ExtractBodies]

\* safeParseJson: null unless the content type is JSON and the body parses
safeParseJson(res) ==
  IF ~res.isJson THEN Null
  ELSE IF res.body.kind = "json" THEN res.body.data
  ELSE Null

\* the result of an upload: the notices shown, the fields of the form
\* afterwards, the requests sent, and whether a rejection left the handler
Uploaded(op, form, res, notices, after, requests, escaped) ==
  [op |-> op, form |-> form, response |-> res, toasts |-> notices,
   after |-> after, requests |-> requests, escaped |-> escaped,
   isExtracting |-> FALSE]

\* AddIncomeForm.handleFileUpload with the onload callback of its reader
IncomeUpload(form, hasFile, res) ==
  LET op == "AddIncomeForm.handleFileUpload"
      cleared == [form EXCEPT !.amount = ""]
      data == safeParseJson(res)
  IN  IF ~hasFile
        THEN Uploaded(op, form, res, <<<<"error", "Please select a file">>>>,
                      form, 0, FALSE)
      ELSE IF res.kind = "rejected"
        THEN Uploaded(op, form, res, <<>>, cleared, 1, TRUE)
      ELSE IF ~res.ok \/ data = Null
        THEN Uploaded(op, form, res, <<<<"error", "Extraction failed">>>>,
                      cleared, 1, FALSE)
      ELSE IF Field(data, "amount").t \notin {"undefined", "null"}
        THEN Uploaded(op, form, res, <<<<"success", "Amount extracted">>>>,
               [cleared EXCEPT
                  !.amount = TextOf(normalizeAmount(DigitsOf(data.amount.n))),
                  !.source =
                    Or(Field(data, "source"),
                       Str(detectIncomeSource(
                             Or(Field(data, "modelRaw"), Str("")).text))).text,
                  !.date = DateOf(Now)],
               1, FALSE)
      ELSE Uploaded(op, form, res,
                    <<<<"warning", "Amount not detected. Enter manually.">>>>,
                    cleared, 1, FALSE)

handleFileUploadIncome(form, hasFile, res) ==
  /\ output.op = "none"
  /\ output' = IncomeUpload(form, hasFile, res)
  /\ UNCHANGED <<incomes, expenses, user>>

\* AddExpenseForm.handleFileUpload with the onload callback of its reader
ExpenseUpload(form, hasFile, res) ==
  LET op == "AddExpenseForm.handleFileUpload"
      cleared == [form EXCEPT !.category = "", !.customCategory = ""]
      data == safeParseJson(res)
  IN  IF ~hasFile
        THEN Uploaded(op, form, res, <<<<"error", "Please select a file">>>>,
                      form, 0, FALSE)
      ELSE IF res.kind = "rejected"
        THEN Uploaded(op, form, res, <<<<"error", "Extraction failed">>>>,
                      cleared, 1, FALSE)
      ELSE IF ~res.ok \/ data = Null
        THEN Uploaded(op, form, res, <<<<"error", "Extraction failed">>>>,
                      cleared, 1, FALSE)
      ELSE IF Truthy(Field(data, "amount"))
        THEN Uploaded(op, form, res,
               <<<<"success", "Details extracted successfully">>>>,
               [cleared EXCEPT
                  !.amount = TextOf(normalizeAmount(DigitsOf(data.amount.n))),
                  !.category =
                    detectExpenseCategory(
                      Or(Field(data, "modelRaw"), Str("")).text),
                  !.date = DateOf(Now)],
               1, FALSE)
      ELSE Uploaded(op, form, res,
                    <<<<"warning", "Amount not detected. Enter manually.">>>>,
                    cleared, 1, FALSE)

handleFileUploadExpense(form, hasFile, res) ==
  /\ output.op = "none"
  /\ output' = ExpenseUpload(form, hasFile, res)
  /\ UNCHANGED <<incomes, expenses, user>>

(***************************************************************************)
(* Statement upload page: handleSaveToFirebase                             *)
(***************************************************************************)
\* the transactions the extraction of a statement has put on the page
ExtractedTransactions ==
  { [date |-> IsoStr("2024-01-15", <<2024, 1, 15>>),
     description |-> "Payslip March", amount |-> Num(250), type |-> "CR",
     classifiedAs |-> "Income"],
    [date |-> IsoStr("2024-01-15", <<2024, 1, 15>>),
     description |-> "ZOMATO ORDER", amount |-> Num(0 - 300), type |-> "DR",
     classifiedAs |-> "Expense"],
    [date |-> Str("not-a-date"),
     description |-> "House Rent", amount |-> Num(0), type |-> "DR",
     classifiedAs |-> "Expense"] }

TransactionLists ==
  {<<>>} \cup {<<a>> : a \in ExtractedTransactions}
         \cup {<<a, b>> : a, b \in ExtractedTransactions}

guessExpenseCategory(desc) ==
  LET found == Mentions(desc)
  IN  IF found \cap {"zomato", "swiggy"} # {} THEN "Food"
      ELSE IF found \cap {"amazon", "flipkart"} # {} THEN "Shopping"
      ELSE IF found \cap {"atm", "withdrawal"} # {} THEN "Cash"
      ELSE IF "rent" \in found THEN "Housing"
      ELSE IF found \cap {"electricity", "bill"} # {} THEN "Utilities"
      ELSE "Misc"

isValidDate(input) == NewDate(input).valid

\* Math.abs
MathAbs(x) == IF x.nan THEN NaN ELSE Num(Abs(x.n))

\* the document handleSaveToFirebase builds for one transaction
SaveDoc(tx, uid) ==
  [amount |-> MathAbs(tx.amount),
   category |-> Str(IF tx.classifiedAs = "Income" THEN "Salary"
                    ELSE guessExpenseCategory(tx.description)),
   date |-> IF isValidDate(tx.date) THEN NewDate(tx.date) ELSE DateOf(Now),
   createdAt |-> Timestamp(Now),
   userId |-> uid]

\* toLowerCase() === "income" on the two classifications
collectionName(tx) ==
  IF tx.classifiedAs = "Income" THEN "incomes" ELSE "expenses"

\* a store that undoes the writes of a batch
RolledBack(docs, name, transactions, uid, n) == docs

RECURSIVE SavedTo(_, _, _, _, _)
\* the collection after the first n transactions are written, one by one
SavedTo(docs, name, transactions, uid, n) ==
  IF n = 0 THEN docs
  ELSE LET before == SavedTo(docs, name, transactions, uid, n - 1)
           tx == transactions[n]
       IN  IF collectionName(tx) = name
             THEN addDoc(before, name, SaveDoc(tx, uid))
           ELSE before

\* handleSaveToFirebase; failAt is the write that the store rejects, 0 if none
SaveResult(transactions, session, failAt) ==
  LET op == "handleSaveToFirebase"
      handed == IF failAt = 0 THEN Len(transactions) ELSE failAt
  IN  IF session = NoUser \/ Len(transactions) = 0
        THEN [op |-> op, transactions |-> transactions, created |-> <<>>,
              written |-> 0, alert |-> "", after |-> transactions,
              saving |-> FALSE]
      ELSE [op |-> op, transactions |-> transactions,
            created |-> [i \in 1..handed |-> SaveDoc(transactions[i], session)],
            written |-> IF failAt = 0 THEN handed ELSE handed - 1,
            alert |-> IF failAt = 0 THEN "Transactions saved successfully."
                      ELSE "Failed to save transactions.",
            after |-> IF failAt = 0 THEN <<>> ELSE transactions,
            saving |-> FALSE]

handleSaveToFirebase(transactions, session, failAt) ==
  /\ output.op = "none"
  /\ output' = SaveResult(transactions, session, failAt)
  /\ incomes' = SavedTo(incomes, "incomes", transactions, session,
                        output'.written)
  /\ expenses' = SavedTo(expenses, "expenses", transactions, session,
                         output'.written)
  /\ UNCHANGED user

(***************************************************************************)
(* LatestTransactionsTable: handleDownloadStatement                        *)
(***************************************************************************)
LongMonths ==
  << <<"J", "a", "n", "u", "a", "r", "y">>,
     <<"F", "e", "b", "r", "u", "a", "r", "y">>,
     <<"M", "a", "r", "c", "h">>,
     <<"A", "p", "r", "i", "l">>,
     <<"M", "a", "y">>,
     <<"J", "u", "n", "e">>,
     <<"J", "u", "l", "y">>,
     <<"A", "u", "g", "u", "s", "t">>,
     <<"S", "e", "p", "t", "e", "m", "b", "e", "r">>,
     <<"O", "c", "t", "o", "b", "e", "r">>,
     <<"N", "o", "v", "e", "m", "b", "e", "r">>,
     <<"D", "e", "c", "e", "m", "b", "e", "r">> >>

\* date.toLocaleDateString("en-US", {year: "numeric", month: "long",
\* day: "numeric"}), e.g. January 15, 2024
formatDate(date) ==
  LET ymd == CivilFromDays(date.time \div 86400)
  IN  LongMonths[ymd[2]] \o <<" ">> \o DigitsOf(ymd[3]) \o <<",", " ">>
        \o DigitsOf(ymd[1])

RECURSIVE DoubleQuotes(_)
\* text.replace(/"/g, '""')
DoubleQuotes(chars) ==
  IF chars = <<>> THEN <<>>
  ELSE (IF Head(chars) = "\"" THEN <<"\"", "\"">> ELSE <<Head(chars)>>)
         \o DoubleQuotes(Tail(chars))

\* `"${text.replace(/"/g, '""')}"`
Quoted(chars) == <<"\"">> \o DoubleQuotes(chars) \o <<"\"">>

\* Number.prototype.toFixed(2)
toFixed2(x) ==
  LET h == HundredthsOf(x)
      a == Abs(h)
  IN  IF x.nan THEN <<"N", "a", "N">>
      ELSE (IF h < 0 \/ "negative" \in DOMAIN x THEN <<"-">> ELSE <<>>)
             \o DigitsOf(a \div 100) \o <<".">>
             \o DigitsOf((a % 100) \div 10) \o DigitsOf(a % 10)

csvHeader ==
  <<"D", "a", "t", "e", ",", "T", "i", "t", "l", "e", ",", "T", "y", "p", "e",
    ",", "A", "m", "o", "u", "n", "t">>

\* one line of csvRows
CsvRow(txn) ==
  formatDate(txn.date) \o <<",">> \o Quoted(CharsOf(txn.title.text))
    \o <<",">> \o Quoted(CharsOf(txn.type.text)) \o <<",">>
    \o toFixed2(txn.amount)

\* an export of the rows on screen instead of all the rows of the month
DownloadDisplayed(state) ==
  [op |-> "handleDownloadStatement", uid |-> state.uid,
   month |-> state.month, year |-> state.year, status |-> state.status,
   allMonthlyTransactions |-> state.allMonthlyTransactions,
   transactionsToDisplay |-> state.transactionsToDisplay,
   file |-> IF Len(state.allMonthlyTransactions) = 0 THEN <<>>
            ELSE <<csvHeader>>
                   \o [i \in 1..Len(state.transactionsToDisplay) |->
                         CsvRow(state.transactionsToDisplay[i])]]

\* handleDownloadStatement on the state a fetch has committed: the lines of
\* the file handed to the browser, none when there is nothing to export
DownloadState(state) ==
  [op |-> "handleDownloadStatement", uid |-> state.uid,
   month |-> state.month, year |-> state.year, status |-> state.status,
   allMonthlyTransactions |-> state.allMonthlyTransactions,
   transactionsToDisplay |-> state.transactionsToDisplay,
   file |-> IF Len(state.allMonthlyTransactions) = 0 THEN <<>>
            ELSE <<csvHeader>>
                   \o [i \in 1..Len(state.allMonthlyTransactions) |->
                         CsvRow(state.allMonthlyTransactions[i])]]

handleDownloadStatement ==
  /\ output.op = "fetchTransactions"
  /\ output' = DownloadState(output)
  /\ UNCHANGED <<incomes, expenses, user>>

\* the documents of a long month: the j-th is dated j steps after (or
\* before) the 15th of January 2024
DatedCopies(base, n, step) ==
  [j \in 1..n |-> [base EXCEPT !.date = Timestamp(T_2024_01_15 + j * step)]]

\* documents that differ from the well-formed ones
OddIncomes ==
  << [BaseIncome EXCEPT !.source = Str("a\"b,c")],
     [BaseIncome EXCEPT !.userId = "u2"] >>

OddExpenses ==
  << [BaseExpense EXCEPT !.amount = Num(0)],
     [BaseExpense EXCEPT !.amount = Str("abc")],
     [BaseExpense EXCEPT !.date = Timestamp(T_2023_12_05)] >>

(***************************************************************************)
(* InsightSummaryCard: the invocations of fetchInsight, step by step       *)
(***************************************************************************)
\* the state of the mounted card before its effect has run
InsightMounted(uid) ==
  [op |-> "InsightSummaryCard", uid |-> uid, month |-> 0 - 1, year |-> 0 - 1,
   insightPoints |-> <<>>, loading |-> FALSE, error |-> Null,
   calls |-> <<>>, event |-> [call |-> 0, kind |-> "mounted"]]

\* the effect runs for a key: fetchInsight up to its first await
EffectRun(w, month, year) ==
  [w EXCEPT !.month = month, !.year = year,
            !.loading = TRUE, !.insightPoints = <<>>, !.error = Null,
            !.calls = Append(@, [month |-> month, year |-> year,
                                 pc |-> "reads", requests |-> 0,
                                 prompt |-> Null]),
            !.event = [call |-> Len(w.calls) + 1, kind |-> "started"]]

\* a finally block that leaves loading as it is
FinallySkipped(w) == w

\* finally { setLoading(false) }
Finally(w) == [w EXCEPT !.loading = FALSE]

\* invocation i after its two store reads: the request is sent, or a read
\* was rejected and the catch block runs
ReadsDone(w, incs, exps, i, ok) ==
  IF ok
    THEN [w EXCEPT
            !.calls[i].pc = "request",
            !.calls[i].requests = @ + 1,
            !.calls[i].prompt =
              InsightSummaryCardState(incs, exps, w.uid, w.calls[i].month,
                                      w.calls[i].year, [ok |-> FALSE]).prompt,
            !.event = [call |-> i, kind |-> "requested"]]
  ELSE Finally(
         [w EXCEPT
            !.calls[i].pc = "done",
            !.error = Str("Failed to analyze your data. Please try again later."),
            !.event = [call |-> i, kind |-> "readFailed"]])

\* invocation i after the answer to its request
ResponseDone(w, i, res) ==
  LET done == [w EXCEPT !.calls[i].pc = "done"]
  IN  IF ~res.ok
        THEN Finally(
               [done EXCEPT
                  !.error = Str("Failed to analyze your data. Please try again later."),
                  !.event = [call |-> i, kind |-> "notOk"]])
      ELSE IF res.content.t = "undefined"
                \/ TrimText(res.content.lines) = << <<>> >>
        THEN Finally(
               [done EXCEPT
                  !.error = Str("No insight returned from Gemini."),
                  !.event = [call |-> i, kind |-> "noContent"]])
      ELSE LET bullets == ParseBullets(TrimText(res.content.lines))
           IN  Finally(
                 [done EXCEPT
                    !.insightPoints = Slice(bullets, 3),
                    !.event = [call |-> i,
                               kind |-> IF bullets = <<>> THEN "noBullets"
                                        ELSE "bullets"]])

\* a card that lists its bullets whether or not an error is set
RenderedDespiteError(w) ==
  (IF w.loading THEN {"spinner"} ELSE {})
    \cup (IF Truthy(w.error) THEN {"error"} ELSE {})
    \cup (IF ~w.loading /\ Len(w.insightPoints) > 0 THEN {"bullets"} ELSE {})
    \cup (IF ~w.loading /\ ~Truthy(w.error) /\ Len(w.insightPoints) = 0
            THEN {"fallback"} ELSE {})

\* what the card shows
Rendered(w) ==
  (IF w.loading THEN {"spinner"} ELSE {})
    \cup (IF Truthy(w.error) THEN {"error"} ELSE {})
    \cup (IF ~w.loading /\ ~Truthy(w.error) /\ Len(w.insightPoints) > 0
            THEN {"bullets"} ELSE {})
    \cup (IF ~w.loading /\ ~Truthy(w.error) /\ Len(w.insightPoints) = 0
            THEN {"fallback"} ELSE {})

\* the card is mounted, or month or year changes: the effect runs
keyChange(month, year) ==
  /\ output.op \in {"none", "InsightSummaryCard"}
  /\ LET w == IF output.op = "none" THEN InsightMounted(user) ELSE output
     IN  /\ Len(w.calls) < MaxCalls
         /\ <<month, year>> # <<w.month, w.year>>
         /\ output' = EffectRun(w, month, year)
  /\ UNCHANGED <<incomes, expenses, user>>

\* the store reads of invocation i complete
readsComplete(i, ok) ==
  /\ output.op = "InsightSummaryCard"
  /\ i \in 1..Len(output.calls)
  /\ output.calls[i].pc = "reads"
  /\ output' = ReadsDone(output, incomes, expenses, i, ok)
  /\ UNCHANGED <<incomes, expenses, user>>

\* the request of invocation i completes
requestCompletes(i, res) ==
  /\ output.op = "InsightSummaryCard"
  /\ i \in 1..Len(output.calls)
  /\ output.calls[i].pc = "request"
  /\ output' = ResponseDone(output, i, res)
  /\ UNCHANGED <<incomes, expenses, user>>

(***************************************************************************)
(* Statement upload page: repeated 'Save All'                              *)
(***************************************************************************)
\* the presses of 'Save All' followed on one page
MaxAttempts == 3

\* handleUpload with a response that carries a transactions array; the sizes
\* of the collections at that moment are kept for reference
handleUpload(transactions) ==
  /\ output.op = "none"
  /\ output' = [op |-> "UploadTransactionsPage", extracted |-> transactions,
                transactions |-> transactions, loading |-> FALSE,
                saving |-> FALSE, alert |-> "", attempts |-> 0,
                incomesBefore |-> Len(incomes),
                expensesBefore |-> Len(expenses)]
  /\ UNCHANGED <<incomes, expenses, user>>

\* a press of 'Save All' on the page: handleSaveToFirebase on the
\* transactions the page holds now
SaveAll(failAt) ==
  /\ output.op = "UploadTransactionsPage"
  /\ ~output.saving
  /\ output.attempts < MaxAttempts
  /\ failAt <= Len(output.transactions)
  /\ LET res == SaveResult(output.transactions, user, failAt)
     IN  /\ output' = [output EXCEPT !.transactions = res.after,
                                     !.saving = res.saving,
                                     !.alert = res.alert,
                                     !.attempts = @ + 1]
         /\ incomes' = SavedTo(incomes, "incomes", output.transactions, user,
                               res.written)
         /\ expenses' = SavedTo(expenses, "expenses", output.transactions,
                                user, res.written)
  /\ UNCHANGED user

(***************************************************************************)
(* LatestTransactionsTable: overlapping invocations of fetchTransactions   *)
(***************************************************************************)
\* the table as mounted, before its effect has run
TableMounted(uid) ==
  [op |-> "LatestTransactionsTable", uid |-> uid, month |-> 0 - 1,
   year |-> 0 - 1, allMonthlyTransactions |-> <<>>,
   transactionsToDisplay |-> <<>>, loading |-> TRUE, error |-> Null,
   calls |-> <<>>, file |-> Null, event |-> [call |-> 0, kind |-> "mounted"]]

\* the effect runs for a key: fetchTransactions up to its first await
TableEffectRun(w, month, year) ==
  [w EXCEPT !.month = month, !.year = year, !.loading = TRUE,
            !.error = Null,
            !.calls = Append(@, [month |-> month, year |-> year,
                                 pc |-> "reads"]),
            !.event = [call |-> Len(w.calls) + 1, kind |-> "started"]]

\* invocation i after its two store reads: the rows are set, or a read was
\* rejected and the catch block runs; finally sets loading false
TableReadsDone(w, incs, exps, i, ok) ==
  LET fetched == LatestTransactionsTableState(incs, exps, w.uid,
                                              w.calls[i].month,
                                              w.calls[i].year)
  IN  IF ok
        THEN [w EXCEPT
                !.calls[i].pc = "done",
                !.allMonthlyTransactions = fetched.allMonthlyTransactions,
                !.transactionsToDisplay = fetched.transactionsToDisplay,
                !.loading = FALSE,
                !.event = [call |-> i, kind |-> "rows"]]
      ELSE [w EXCEPT
              !.calls[i].pc = "done",
              !.error = Str("Failed to load transactions. Please try again."),
              !.loading = FALSE,
              !.event = [call |-> i, kind |-> "readFailed"]]

\* the rows the table lists: none behind the spinner or the error text
RowsOnScreen(w) ==
  IF w.loading \/ Truthy(w.error) THEN <<>> ELSE w.transactionsToDisplay

\* the Download button is enabled
CanDownload(w) == ~w.loading /\ Len(w.allMonthlyTransactions) > 0

\* handleDownloadStatement on the current state: the file is named after the
\* month and year of the props and holds allMonthlyTransactions
TableDownloaded(w) ==
  [w EXCEPT !.file = [month |-> w.month, year |-> w.year,
                      rows |-> w.allMonthlyTransactions],
            !.event = [call |-> 0, kind |-> "downloaded"]]

\* the table is mounted, or month or year changes: the effect runs
tableKeyChange(month, year) ==
  /\ output.op \in {"none", "LatestTransactionsTable"}
  /\ LET w == IF output.op = "none" THEN TableMounted(user) ELSE output
     IN  /\ Len(w.calls) < MaxCalls
         /\ <<month, year>> # <<w.month, w.year>>
         /\ output' = TableEffectRun(w, month, year)
  /\ UNCHANGED <<incomes, expenses, user>>

\* the store reads of invocation i complete
tableReadsComplete(i, ok) ==
  /\ output.op = "LatestTransactionsTable"
  /\ i \in 1..Len(output.calls)
  /\ output.calls[i].pc = "reads"
  /\ output' = TableReadsDone(output, incomes, expenses, i, ok)
  /\ UNCHANGED <<incomes, expenses, user>>

\* the user presses Download
tableDownload ==
  /\ output.op = "LatestTransactionsTable"
  /\ CanDownload(output)
  /\ output.file = Null
  /\ output' = TableDownloaded(output)
  /\ UNCHANGED <<incomes, expenses, user>>

(***************************************************************************)
(* TotalBalanceCard: invocations of fetchData that succeed or fail         *)
(***************************************************************************)
\* the card as mounted; shownOf is the invocation whose result the card
\* shows, 0 for none
BalanceMounted(uid) ==
  [op |-> "TotalBalanceCard", uid |-> uid, month |-> 0 - 1, year |-> 0 - 1,
   data |-> <<>>, currentBalance |-> Num(0), currentIncome |-> Num(0),
   currentExpense |-> Num(0), change |-> Null, shownOf |-> 0,
   calls |-> <<>>, event |-> [call |-> 0, kind |-> "mounted"]]

\* the effect runs for a key: fetchData up to its await; no state is set
BalanceEffectRun(w, month, year) ==
  [w EXCEPT !.month = month, !.year = year,
            !.calls = Append(@, [month |-> month, year |-> year,
                                 pc |-> "reads"]),
            !.event = [call |-> Len(w.calls) + 1, kind |-> "started"]]

\* invocation i after Promise.all of its two store reads: the five setters
\* run, or a read was rejected and the catch block logs the error
BalanceReadsDone(w, incs, exps, i, ok) ==
  LET fetched == TotalBalanceCardState(incs, exps, w.uid, w.calls[i].month,
                                       w.calls[i].year)
  IN  IF ok
        THEN [w EXCEPT
                !.calls[i].pc = "done",
                !.data = fetched.data,
                !.currentIncome = fetched.currentIncome,
                !.currentExpense = fetched.currentExpense,
                !.currentBalance = fetched.currentBalance,
                !.change = fetched.change,
                !.shownOf = i,
                !.event = [call |-> i, kind |-> "totals"]]
      ELSE [w EXCEPT
              !.calls[i].pc = "done",
              !.event = [call |-> i, kind |-> "readFailed"]]

\* the card is mounted, or month or year changes: the effect runs
balanceKeyChange(month, year) ==
  /\ output.op \in {"none", "TotalBalanceCard"}
  /\ LET w == IF output.op = "none" THEN BalanceMounted(user) ELSE output
     IN  /\ Len(w.calls) < MaxCalls
         /\ <<month, year>> # <<w.month, w.year>>
         /\ output' = BalanceEffectRun(w, month, year)
  /\ UNCHANGED <<incomes, expenses, user>>

\* the store reads of invocation i complete
balanceReadsComplete(i, ok) ==
  /\ output.op = "TotalBalanceCard"
  /\ i \in 1..Len(output.calls)
  /\ output.calls[i].pc = "reads"
  /\ output' = BalanceReadsDone(output, incomes, expenses, i, ok)
  /\ UNCHANGED <<incomes, expenses, user>>

(***************************************************************************)
(* AddIncomeForm and AddExpenseForm: the steps of handleFileUpload         *)
(***************************************************************************)
FormComponents == {"AddIncomeForm", "AddExpenseForm"}

\* handleFileUpload up to its return, with a file selected.  AddIncomeForm
\* sets isExtracting true and, in the finally block of the try that only
\* installs the onload callback and starts the reader, false again;
\* AddExpenseForm sets it true and leaves it to the callback.
FileSelected(component, form) ==
  [op |-> "handleFileUpload", component |-> component, form |-> form,
   isExtracting |-> (component = "AddExpenseForm"),
   pc |-> "reading", toasts |-> <<>>, submittedAt |-> "never"]

\* reader.onload up to its await: the extraction request is sent
ReaderLoaded(w) == [w EXCEPT !.pc = "request"]

\* reader.onload after the answer to the request; the finally block of
\* AddExpenseForm's callback sets isExtracting false
ExtractionHandled(w, res) ==
  LET result == IF w.component = "AddIncomeForm"
                  THEN IncomeUpload(w.form, TRUE, res)
                ELSE ExpenseUpload(w.form, TRUE, res)
  IN  [w EXCEPT !.pc = "done", !.toasts = result.toasts,
                !.isExtracting = FALSE]

\* the submit button: disabled={isSubmitting || isExtracting}
CanSubmit(w) == ~w.isExtracting

fileSelected(component, form) ==
  /\ output.op = "none"
  /\ output' = FileSelected(component, form)
  /\ UNCHANGED <<incomes, expenses, user>>

readerLoaded ==
  /\ output.op = "handleFileUpload"
  /\ output.pc = "reading"
  /\ output' = ReaderLoaded(output)
  /\ UNCHANGED <<incomes, expenses, user>>

extractionHandled(res) ==
  /\ output.op = "handleFileUpload"
  /\ output.pc = "request"
  /\ output' = ExtractionHandled(output, res)
  /\ UNCHANGED <<incomes, expenses, user>>

\* the user presses the submit button; the step of the upload at which the
\* button has let the first press through is kept
submitPressed ==
  /\ output.op = "handleFileUpload"
  /\ CanSubmit(output)
  /\ output.submittedAt = "never"
  /\ output' = [output EXCEPT !.submittedAt = output.pc]
  /\ UNCHANGED <<incomes, expenses, user>>

(***************************************************************************)
(* Specification                                                           *)
(***************************************************************************)
Init ==
  /\ \E n \in 0..MaxDocs, k \in 0..MaxDocs :
       /\ k <= n
       /\ \E data \in [1..k -> IncomeDocs] : incomes = Stored("incomes", data)
       /\ \E data \in [1..(n - k) -> ExpenseDocs] : expenses = Stored("expenses", data)
  /\ user \in LoggedIn
  /\ output = [op |-> "none"]

Next ==
  \/ fetchIncome
  \/ fetchMonthlyExpenses
  \/ \E year \in Years : fetchIncomeExpenseData(year)
  \/ \E year \in Years : fetchSavingsData(year)
  \/ \E sel \in Selections : fetchCategoryData(sel.month, sel.year)
  \/ \E sel \in Selections : fetchTransactions(sel.month, sel.year)
  \/ \E sel \in Selections : fetchData(sel.month, sel.year)
  \/ \E sel \in Selections : fetchExpenses(sel.month, sel.year)
  \/ \E sel \in Selections, res \in InsightResponses :
       fetchInsight(sel.month, sel.year, res)

\* one mount of one dashboard or chart widget
Spec == Init /\ [][Next]_vars

NextSummary == \E req \in Requests : GET(req.uid, req.from, req.to)

\* one request to the summary endpoint
SpecSummary == Init /\ [][NextSummary]_vars

NextNormalise ==
  \/ \E raw \in StoredDates : callParseDate(raw)
  \/ \E raw \in StoredDates : callParseIncomeDate(raw)
  \/ \E raw \in StoredDates : callInlineDate(raw)
  \/ \E raw \in StoredDates : callInsightDate(raw)
  \/ \E raw \in StoredDates : callParseFirestoreDate(raw)

\* one normalisation of one stored date
SpecNormalise == Init /\ [][NextNormalise]_vars

\* a store with at most one well-formed document in each collection
InitForms ==
  /\ \E i \in {<<>>, <<BaseIncome>>}, e \in {<<>>, <<BaseExpense>>} :
       /\ incomes = Stored("incomes", i)
       /\ expenses = Stored("expenses", e)
  /\ user \in LoggedIn
  /\ output = [op |-> "none"]

NextForms ==
  \/ \E form \in IncomeForms, session \in {user, NoUser}, stored \in BOOLEAN :
       handleSubmitIncome(form, session, stored)
  \/ \E form \in ExpenseForms, session \in {user, NoUser}, stored \in BOOLEAN :
       handleSubmitExpense(form, session, stored)
  \/ \E form \in IncomeFormsAtUpload, hasFile \in BOOLEAN,
        res \in ExtractResponses :
       handleFileUploadIncome(form, hasFile, res)
  \/ \E form \in ExpenseFormsAtUpload, hasFile \in BOOLEAN,
        res \in ExtractResponses :
       handleFileUploadExpense(form, hasFile, res)
  \/ \E transactions \in TransactionLists, session \in {user, NoUser},
        failAt \in 0..2 :
       /\ failAt <= Len(transactions)
       /\ handleSaveToFirebase(transactions, session, failAt)

\* one use of an entry form or of the statement upload page
SpecForms == InitForms /\ [][NextForms]_vars

\* a store with up to MaxRows records of one month, in date order, in reverse
\* date order or all of one instant, with or without the odd ones
InitTable ==
  /\ \E n \in 0..MaxRows, k \in 0..MaxRows, step \in {0 - 60, 0, 60},
        odd \in BOOLEAN :
       /\ k \in {0, n \div 2, n}
       /\ incomes =
            Stored("incomes",
                   DatedCopies(BaseIncome, k, step)
                     \o (IF odd THEN OddIncomes ELSE <<>>))
       /\ expenses =
            Stored("expenses",
                   DatedCopies(BaseExpense, n - k, 2 * step)
                     \o (IF odd THEN OddExpenses ELSE <<>>))
  /\ user \in LoggedIn
  /\ output = [op |-> "none"]

NextTable ==
  \/ \E sel \in Selections : fetchTransactions(sel.month, sel.year)
  \/ handleDownloadStatement

\* one mount of LatestTransactionsTable, and a download of its statement
SpecTable == InitTable /\ [][NextTable]_vars

NextBullets ==
  \E sel \in Selections, res \in InsightContents :
    fetchInsightAnswered(sel.month, sel.year, res)

\* one mount of InsightSummaryCard, answered with a text of several lines
SpecBullets == InitForms /\ [][NextBullets]_vars

\* the store reads and the request of an invocation that is under way
Completion ==
  \E i \in 1..MaxCalls :
    \/ \E ok \in BOOLEAN : readsComplete(i, ok)
    \/ \E res \in InsightResponses : requestCompletes(i, res)

NextInsight ==
  \/ \E sel \in Selections : keyChange(sel.month, sel.year)
  \/ Completion

\* a mounted InsightSummaryCard whose key changes while invocations run
SpecInsight == InitForms /\ [][NextInsight]_vars

\* the same, when every store read and every request completes
SpecInsightLive == SpecInsight /\ WF_vars(Completion)

\* an extraction followed by presses of 'Save All', each of which the store
\* may reject at any of its writes
NextSave ==
  \/ \E transactions \in TransactionLists : handleUpload(transactions)
  \/ \E failAt \in 0..2 : SaveAll(failAt)

SpecSave == InitForms /\ [][NextSave]_vars

\* a store with records of January 2024 and of December 2023
InitMonths ==
  /\ incomes \in {<<>>, Stored("incomes", <<BaseIncome>>)}
  /\ \E data \in {<<>>, <<BaseExpense>>,
                   <<[BaseExpense EXCEPT !.date = Timestamp(T_2023_12_05)]>>,
                   <<BaseExpense,
                     [BaseExpense EXCEPT !.date = Timestamp(T_2023_12_05)]>>} :
       expenses = Stored("expenses", data)
  /\ user \in LoggedIn
  /\ output = [op |-> "none"]

NextTableRace ==
  \/ \E sel \in Selections : tableKeyChange(sel.month, sel.year)
  \/ \E i \in 1..MaxCalls, ok \in BOOLEAN : tableReadsComplete(i, ok)
  \/ tableDownload

\* a mounted LatestTransactionsTable whose key changes while fetches run
SpecTableRace == InitMonths /\ [][NextTableRace]_vars

NextBalanceRace ==
  \/ \E sel \in Selections : balanceKeyChange(sel.month, sel.year)
  \/ \E i \in 1..MaxCalls, ok \in BOOLEAN : balanceReadsComplete(i, ok)

\* a mounted TotalBalanceCard whose key changes and whose reads may fail
SpecBalanceRace == InitMonths /\ [][NextBalanceRace]_vars

NextExtract ==
  \/ \E form \in IncomeFormsAtUpload : fileSelected("AddIncomeForm", form)
  \/ \E form \in ExpenseFormsAtUpload : fileSelected("AddExpenseForm", form)
  \/ readerLoaded
  \/ \E res \in ExtractResponses : extractionHandled(res)
  \/ submitPressed

\* a file is selected in one of the entry forms and its extraction runs
SpecExtract == InitForms /\ [][NextExtract]_vars

\* expense records of January 2024 whose category is a name, missing, not a
\* string, or a key that the summary endpoint inserts itself, and one whose
\* amount is the NaN that Math.abs of handleSaveToFirebase writes for an
\* extracted transaction without a numeric amount
CategoryDocs ==
  {BaseExpense}
    \cup {[BaseExpense EXCEPT !.category = c] :
            c \in {Str("Test Category"), Str("Other"), Num(7)}}
    \cup {[f \in {"userId", "amount", "date"} |-> BaseExpense[f]]}
    \cup {[BaseExpense EXCEPT !.amount = NaN]}

InitCategories ==
  /\ incomes = <<>>
  /\ \E n \in 0..MaxDocs :
       \E data \in [1..n -> CategoryDocs] :
         expenses = Stored("expenses", data)
  /\ user \in LoggedIn
  /\ output = [op |-> "none"]

\* one request to the summary endpoint on a store of categorised expenses
SpecCategories == InitCategories /\ [][NextSummary]_vars

\* records of the logged-in user and of another account
OwnerIncomes ==
  {BaseIncome}
    \cup {[BaseIncome EXCEPT !.userId = "u2", !.amount = a] :
            a \in {Num(100), Num(7)}}

OwnerExpenses ==
  {BaseExpense}
    \cup {[BaseExpense EXCEPT !.userId = "u2", !.amount = a] :
            a \in {Num(40), Num(7)}}

\* a store shared by two accounts
InitOwners ==
  /\ \E n \in 0..MaxDocs, k \in 0..MaxDocs :
       /\ k <= n
       /\ \E data \in [1..k -> OwnerIncomes] :
            incomes = Stored("incomes", data)
       /\ \E data \in [1..(n - k) -> OwnerExpenses] :
            expenses = Stored("expenses", data)
  /\ user \in LoggedIn
  /\ output = [op |-> "none"]

NextOwners ==
  \/ Next
  \/ NextSummary
  \/ \E form \in IncomeFormsAtUpload, session \in {user, NoUser}, stored \in BOOLEAN :
       handleSubmitIncome(form, session, stored)
  \/ \E form \in ExpenseFormsAtUpload, session \in {user, NoUser}, stored \in BOOLEAN :
       handleSubmitExpense(form, session, stored)
  \/ \E transactions \in TransactionLists, session \in {user, NoUser},
        failAt \in 0..2 :
       /\ failAt <= Len(transactions)
       /\ handleSaveToFirebase(transactions, session, failAt)

\* one read or one write of the application on a store of two accounts
SpecOwners == InitOwners /\ [][NextOwners]_vars

(***************************************************************************)
(* Vocabulary of the properties                                            *)
(***************************************************************************)
\* A stored date is a valid representation of a point in time when it is an
\* ISO string, a timestamp wrapper (with or without toDate) or a native date.
IsDateRep(raw) ==
  \/ raw.t = "string" /\ raw.iso # <<>>
  \/ raw.t \in {"Timestamp", "object"}
  \/ raw.t = "Date" /\ raw.valid

\* the point in time it denotes, in seconds since the epoch
InstantOf(raw) ==
  CASE raw.t = "string" -> DaysFromCivil(raw.iso[1], raw.iso[2], raw.iso[3]) * 86400
    [] raw.t \in {"Timestamp", "object"} -> raw.seconds
    [] raw.t = "Date" -> raw.time

\* the unparseable result: null or an invalid date
Unparseable(date) == date.t = "null" \/ (date.t = "Date" /\ ~date.valid)

YearOf(instant) == CivilFromDays(instant \div 86400)[1]

\* 0-indexed
MonthOf(instant) == CivilFromDays(instant \div 86400)[2] - 1

DateOfDoc(doc) == Field(doc, "date")

\* the amount of a document: a missing or non-numeric amount counts as zero
AmountOf(doc) == IF Field(doc, "amount").t = "number" THEN doc.amount.n ELSE 0

RECURSIVE SumAmounts(_)
SumAmounts(docs) ==
  IF docs = <<>> THEN 0 ELSE AmountOf(Head(docs)) + SumAmounts(Tail(docs))

RECURSIVE Total(_)
\* the sum of a sequence of JavaScript numbers
Total(numbers) ==
  IF numbers = <<>> THEN Num(0) ELSE Plus(Head(numbers), Total(Tail(numbers)))

\* the documents of the owner the committed state was computed for
MyIncomes == Owned(incomes, IF output.op = "GET" THEN output.uid.text ELSE output.uid)

MyExpenses == Owned(expenses, IF output.op = "GET" THEN output.uid.text ELSE output.uid)

\* the normalised date of a document, as the component that committed the
\* state normalises it
NormalisedDate(doc) ==
  CASE output.op = "fetchIncome" -> parseIncomeDate(DateOfDoc(doc))
    [] output.op \in {"fetchIncomeExpenseData", "fetchExpenses"} -> InlineDate(DateOfDoc(doc))
    [] output.op = "fetchInsight" -> InsightDate(DateOfDoc(doc))
    [] output.op = "GET" -> parseFirestoreDate(DateOfDoc(doc))
    [] OTHER -> parseDate(DateOfDoc(doc))

\* the document has a parseable date
Parsed(doc) == ~Unparseable(NormalisedDate(doc))

InYear(doc) == Parsed(doc) /\ YearOf(NormalisedDate(doc).time) = output.year

InMonth(doc) == InYear(doc) /\ MonthOf(NormalisedDate(doc).time) = output.month

\* the bounds of the window of a request: unset when missing or not a date
FromSet == IsDateRep(output.from)

ToSet == IsDateRep(output.to)

InWindowAt(instant) ==
  /\ FromSet => instant >= InstantOf(output.from)
  /\ ToSet => instant <= InstantOf(output.to)

InWindow(doc) == Parsed(doc) /\ InWindowAt(NormalisedDate(doc).time)

MonthlyOps == {"fetchIncome", "fetchMonthlyExpenses", "fetchIncomeExpenseData",
               "fetchSavingsData"}

YearlyOps == {"fetchIncomeExpenseData", "fetchSavingsData"}

\* the successful aggregations that produce a monthly series
Monthly == output.op \in MonthlyOps /\ output.status = "ok"

\* a record admitted to a monthly series
AdmittedToSeries(doc) == IF output.op \in YearlyOps THEN InYear(doc) ELSE Parsed(doc)

\* the income and the expense totals of a monthly series, month by month
IncomeSeries ==
  CASE output.op = "fetchIncome" -> [i \in 1..Len(output.data) |-> output.data[i].value]
    [] output.op \in YearlyOps -> [i \in 1..Len(output.data) |-> output.data[i].income]
    [] OTHER -> <<>>

ExpenseSeries ==
  CASE output.op = "fetchMonthlyExpenses" -> [i \in 1..Len(output.data) |-> output.data[i].value]
    [] output.op = "fetchIncomeExpenseData" -> [i \in 1..Len(output.data) |-> output.data[i].expenses]
    [] output.op = "fetchSavingsData" -> [i \in 1..Len(output.data) |-> output.data[i].expense]
    [] OTHER -> <<>>

HasIncomeSeries == output.op # "fetchMonthlyExpenses"

HasExpenseSeries == output.op # "fetchIncome"

(***************************************************************************)
(* Monthly totals                                                          *)
(***************************************************************************)
\* C1: the twelve monthly totals of a monthly aggregation (IncomeChart,
\* ExpenseChart, and the income and expense series of IncomeExpenseChart and
\* SavingsTrendChart) sum to exactly the sum of the amounts of the admitted
\* records: those with a parseable date, in the requested year where the
\* series is per year.
C1_MonthlyTotalsSumToAdmitted ==
  Monthly =>
    /\ HasIncomeSeries =>
         Total(IncomeSeries) = Num(SumAmounts(SelectSeq(MyIncomes, AdmittedToSeries)))
    /\ HasExpenseSeries =>
         Total(ExpenseSeries) = Num(SumAmounts(SelectSeq(MyExpenses, AdmittedToSeries)))

(***************************************************************************)
(* The summary endpoint                                                    *)
(***************************************************************************)
Answered == output.op = "GET" /\ output.status = 200

\* C2: for every uid and window the summary's totalIncome is exactly the sum
\* of the amounts of the owner's income records the window admits,
\* totalExpense the same sum over the owner's expense records, and savings
\* is totalIncome - totalExpense; with no admitted record all three are 0.
C2_SummaryTotalsExact ==
  Answered =>
    LET income  == SumAmounts(SelectSeq(MyIncomes, InWindow))
        expense == SumAmounts(SelectSeq(MyExpenses, InWindow))
    IN  /\ output.body.totalIncome = Num(income)
        /\ output.body.totalExpense = Num(expense)
        /\ output.body.savings = Num(income - expense)

\* the window filter's verdicts on the owner's documents, income and expense
Verdicts == output.log.incomes \o output.log.expenses

\* C3: the window filter admits a record with normalised date d if and only
\* if (from is unset or d >= from) and (to is unset or d <= to), both bounds
\* inclusive; a from or to that is missing or does not parse is unset.
C3_WindowInclusive ==
  Answered =>
    \A i \in 1..Len(Verdicts) :
      LET d == parseFirestoreDate(Verdicts[i].date)
      IN  ~Unparseable(d) => (Verdicts[i].isInRange <=> InWindowAt(d.time))

\* a record dated exactly at `from` is admitted, a record before it is not,
\* and an unparseable `to` does not close the window
C3_Witness ==
  /\ Answered
  /\ FromSet
  /\ output.to = Str("soon")
  /\ \E i \in 1..Len(Verdicts) :
       /\ IsDateRep(Verdicts[i].date)
       /\ InstantOf(Verdicts[i].date) = InstantOf(output.from)
       /\ Verdicts[i].isInRange
  /\ \E i \in 1..Len(Verdicts) :
       /\ IsDateRep(Verdicts[i].date)
       /\ InstantOf(Verdicts[i].date) < InstantOf(output.from)
       /\ ~Verdicts[i].isInRange

\* C4: the window filter rejects every record whose date is unparseable
\* (absent, a string that is not a date, or a value of unsupported shape)
\* whatever from and to are, both unset included.
C4_UnparseableRejected ==
  Answered =>
    \A i \in 1..Len(Verdicts) :
      ~IsDateRep(Verdicts[i].date) => ~Verdicts[i].isInRange

(***************************************************************************)
(* A record dated "not-a-date"                                             *)
(***************************************************************************)
NotADate(doc) == DateOfDoc(doc) = Str("not-a-date")

\* the collection as if the records dated "not-a-date" did not exist
Kept(coll) == SelectSeq(coll, LAMBDA doc : ~NotADate(doc))

\* C5: in every chart and month-mode aggregation (IncomeChart, ExpenseChart,
\* IncomeExpenseChart, SavingsTrendChart, SpendingCategoryChart,
\* LatestTransactionsTable, TotalBalanceCard, InsightSummaryCard) a record
\* whose date is the string "not-a-date" is excluded from every bucket and
\* row: what the aggregation commits is what it commits when the record does
\* not exist, and it completes without an error.
C5_NotADateExcluded ==
  CASE output.op = "fetchIncome" ->
         output = IncomeChartState(Kept(incomes), Kept(expenses), output.uid)
           /\ output.status = "ok"
    [] output.op = "fetchMonthlyExpenses" ->
         output = ExpenseChartState(Kept(incomes), Kept(expenses), output.uid)
           /\ output.status = "ok"
    [] output.op = "fetchIncomeExpenseData" ->
         output = IncomeExpenseChartState(Kept(incomes), Kept(expenses),
                                          output.uid, output.year)
           /\ output.status = "ok"
    [] output.op = "fetchSavingsData" ->
         output = SavingsTrendChartState(Kept(incomes), Kept(expenses),
                                         output.uid, output.year)
           /\ output.status = "ok"
    [] output.op = "fetchCategoryData" ->
         output = SpendingCategoryChartState(Kept(incomes), Kept(expenses),
                                             output.uid, output.month, output.year)
           /\ output.status = "ok"
    [] output.op = "fetchTransactions" ->
         output = LatestTransactionsTableState(Kept(incomes), Kept(expenses),
                                               output.uid, output.month, output.year)
           /\ output.status = "ok"
    [] output.op = "fetchData" ->
         output = TotalBalanceCardState(Kept(incomes), Kept(expenses),
                                        output.uid, output.month, output.year)
           /\ output.status = "ok"
    [] output.op = "fetchInsight" ->
         output.prompt = InsightSummaryCardState(Kept(incomes), Kept(expenses), output.uid,
                                                 output.month, output.year,
                                                 [ok |-> FALSE]).prompt
    [] OTHER -> TRUE

\* ExpenseChart has aggregated a record dated "not-a-date" beside a record
\* it counts
C5_Witness ==
  /\ output.op = "fetchMonthlyExpenses"
  /\ \E i \in 1..Len(MyExpenses) :
       NotADate(MyExpenses[i]) /\ Field(MyExpenses[i], "amount") = Num(40)
  /\ output.data[1].value = Num(25)

(***************************************************************************)
(* The date normalisers                                                    *)
(***************************************************************************)
NormaliserOps == {"parseDate", "parseIncomeDate", "InlineDate", "InsightDate",
                  "parseFirestoreDate"}

\* C6: every date-normalising path (parseDate of the widgets,
\* parseIncomeDate, parseFirestoreDate, the conversions inlined in
\* IncomeExpenseChart, the dashboard page and InsightSummaryCard) yields the
\* unparseable result for an absent or malformed date, so the record is
\* attributed to no month and no year, 1 January 1970 included.
C6_AbsentOrMalformedUnparseable ==
  output.op \in NormaliserOps /\ ~IsDateRep(output.raw) => Unparseable(output.result)

\* C7: for an ISO string, an epoch-seconds wrapper and a native date each of
\* parseDate, the conversion inlined in InsightSummaryCard and
\* parseFirestoreDate returns the point in time the value denotes, the same
\* for the three representations; every other input yields unparseable.
C7_SameInstantForEveryRepresentation ==
  output.op \in {"parseDate", "InsightDate", "parseFirestoreDate"} =>
    IF IsDateRep(output.raw)
      THEN output.result = DateOf(InstantOf(output.raw))
      ELSE Unparseable(output.result)

(***************************************************************************)
(* Month mode and the buckets                                              *)
(***************************************************************************)
\* the category of an expense, under the label the component gives to an
\* expense without one
LabelOf(doc) ==
  LET category == Field(doc, "category")
  IN  IF category.t = "string" /\ category.text # "" THEN category.text
      ELSE IF output.op = "GET" THEN "Other" ELSE "Uncategorized"

InMonthOf(doc, monthIndex) ==
  AdmittedToSeries(doc) /\ MonthOf(NormalisedDate(doc).time) = monthIndex

\* the sum of the amounts of the documents of a collection that P admits
AmountsWhere(docs, P(_)) == Num(SumAmounts(SelectSeq(docs, P)))

\* the value of a key of a breakdown, zero when the key is absent
ValueAt(entries, key) == IF HasKey(entries, key) THEN Get(entries, key) ELSE Num(0)

RowIds(rows) == {rows[i].id : i \in 1..Len(rows)}

HasNumericAmount(doc) == Field(doc, "amount").t = "number"

CountedIds(docs) ==
  {docs[i].id : i \in {j \in 1..Len(docs) : InMonth(docs[j]) /\ HasNumericAmount(docs[j])}}

C8_Category ==
  output.op = "fetchCategoryData" =>
    \A c \in {LabelOf(MyExpenses[i]) : i \in 1..Len(MyExpenses)}
               \cup {output.data[i].name : i \in 1..Len(output.data)} :
      ValueAt(output.data, c)
        = AmountsWhere(MyExpenses, LAMBDA e : InMonth(e) /\ LabelOf(e) = c)

C8_Rows ==
  output.op = "fetchTransactions" =>
    RowIds(output.allMonthlyTransactions) = CountedIds(MyIncomes) \cup CountedIds(MyExpenses)

C8_Insight ==
  output.op = "fetchInsight" =>
    /\ output.prompt.totalIncome = AmountsWhere(MyIncomes, InMonth)
    /\ output.prompt.totalExpense = AmountsWhere(MyExpenses, InMonth)

C8_Balance ==
  output.op = "fetchData" =>
    /\ output.currentIncome = AmountsWhere(MyIncomes, InMonth)
    /\ output.currentExpense = AmountsWhere(MyExpenses, InMonth)

C8_Yearly ==
  output.op \in YearlyOps =>
    \A m \in 0..11 :
      /\ IncomeSeries[m + 1] = AmountsWhere(MyIncomes, LAMBDA d : InMonthOf(d, m))
      /\ ExpenseSeries[m + 1] = AmountsWhere(MyExpenses, LAMBDA d : InMonthOf(d, m))

\* C8: a record is counted for a (month, year) if and only if its normalised
\* date has that year and that 0-indexed month, in SpendingCategoryChart,
\* LatestTransactionsTable (a row per record with a numeric amount),
\* InsightSummaryCard and TotalBalanceCard; in the yearly series each
\* admitted record adds its amount to the bucket of its own month and kind
\* and to no other; only expenses enter category buckets.
C8_MonthMode ==
  C8_Category /\ C8_Rows /\ C8_Insight /\ C8_Balance /\ C8_Yearly

MonthNames == <<"Jan", "Feb", "Mar", "Apr", "May", "Jun",
                "Jul", "Aug", "Sep", "Oct", "Nov", "Dec">>

\* the label of the i-th entry of a monthly series
MonthLabel(i) ==
  IF output.op \in YearlyOps THEN output.data[i].month ELSE output.data[i].name

\* C9: every monthly series a successful aggregation produces (IncomeChart,
\* ExpenseChart, IncomeExpenseChart, SavingsTrendChart) has exactly twelve
\* entries, one per calendar month from Jan to Dec in that order, for every
\* record set; a month with no admitted record has total 0.
C9_TwelveMonths ==
  Monthly =>
    /\ Len(output.data) = 12
    /\ \A i \in 1..12 :
         /\ MonthLabel(i) = MonthNames[i]
         /\ (HasIncomeSeries /\ SelectSeq(MyIncomes, LAMBDA d : InMonthOf(d, i - 1)) = <<>>)
              => IncomeSeries[i] = Num(0)
         /\ (HasExpenseSeries /\ SelectSeq(MyExpenses, LAMBDA d : InMonthOf(d, i - 1)) = <<>>)
              => ExpenseSeries[i] = Num(0)

\* ExpenseChart has aggregated one expense of January and one of March:
\* their months carry the amounts and the ten other months are there with 0
C9_Witness ==
  /\ output.op = "fetchMonthlyExpenses"
  /\ Len(MyExpenses) = 2
  /\ output.data[1] = [name |-> "Jan", value |-> Num(40)]
  /\ output.data[3] = [name |-> "Mar", value |-> Num(40)]
  /\ \A i \in (1..12) \ {1, 3} : output.data[i].value = Num(0)

\* the category breakdown a component commits, and the expenses it admits
IsBreakdown == Answered \/ output.op = "fetchCategoryData"

Breakdown == IF output.op = "GET" THEN output.body.categoryTotals ELSE output.data

AdmittedExpense(doc) == IF output.op = "GET" THEN InWindow(doc) ELSE InMonth(doc)

\* C10: every key of a category breakdown (the data of SpendingCategoryChart,
\* categoryTotals of the summary) is the category of at least one admitted
\* expense and its value is the sum of the amounts of the admitted expenses
\* of that category; with no admitted expense the breakdown has no key.
C10_BreakdownKeysObserved ==
  IsBreakdown =>
    \A i \in 1..Len(Breakdown) :
      LET admitted == SelectSeq(MyExpenses,
                                LAMBDA e : AdmittedExpense(e) /\ LabelOf(e) = Breakdown[i].name)
      IN  admitted # <<>> /\ Breakdown[i].value = Num(SumAmounts(admitted))

(***************************************************************************)
(* Amounts that are missing or not numbers                                 *)
(***************************************************************************)
\* C11: in the monthly aggregations of IncomeChart, ExpenseChart and
\* IncomeExpenseChart a record whose amount is missing or not a number
\* contributes zero to its bucket and leaves the other contributions
\* intact: every bucket total is the sum of the numeric amounts of the
\* admitted records of that month, in whatever order the store returns them.
C11_NonNumericAmountIsZero ==
  (Monthly /\ output.op # "fetchSavingsData") =>
    \A m \in 0..11 :
      /\ HasIncomeSeries =>
           IncomeSeries[m + 1] = AmountsWhere(MyIncomes, LAMBDA d : InMonthOf(d, m))
      /\ HasExpenseSeries =>
           ExpenseSeries[m + 1] = AmountsWhere(MyExpenses, LAMBDA d : InMonthOf(d, m))


(***************************************************************************)
(* Entry forms                                                             *)
(***************************************************************************)
SubmitOps == {"AddIncomeForm.handleSubmit", "AddExpenseForm.handleSubmit"}

\* the label of a submitted form: the selected source or category, or the
\* trimmed custom text when the selection asks for a custom label
LabelOfForm(out) ==
  IF out.op = "AddIncomeForm.handleSubmit"
    THEN (IF out.form.source = "Other"
            THEN TrimString(out.form.customSource) ELSE out.form.source)
  ELSE (IF out.form.category \in {"Other", "Misc"}
          THEN TrimString(out.form.customCategory) ELSE out.form.category)

\* the amount text of a submitted form parses to a number greater than 0
AmountAccepted(out) ==
  LET amount == parseFloat(normalizeAmount(CharsOf(out.form.amount)))
  IN  ~amount.nan /\ HundredthsOf(amount) > 0

ValidSubmission(out) ==
  /\ AmountAccepted(out)
  /\ LabelOfForm(out) # ""
  /\ out.form.date # Null
  /\ out.session # NoUser

\* C12: a submission of AddIncomeForm or AddExpenseForm hands a document to
\* the store only if the amount parses to a number greater than 0, the label
\* is non-empty, a date is set and a user is logged in; an amount of "-5" or
\* "0" or an empty required field is rejected with an error notice and leaves
\* both collections as they were; a valid submission makes exactly one create,
\* which adds exactly one document when the store accepts it.
C12_SubmitWritesOnlyIfValid ==
  [][output'.op \in SubmitOps =>
       /\ output'.created # <<>> => ValidSubmission(output')
       /\ (\/ output'.form.amount \in {"-5", "0", ""}
           \/ LabelOfForm(output') = ""
           \/ output'.form.date = Null)
            => /\ output'.toast[1] = "error"
               /\ output'.created = <<>>
               /\ incomes' = incomes /\ expenses' = expenses
       /\ ValidSubmission(output') =>
            /\ Len(output'.created) = 1
            /\ Len(incomes') + Len(expenses')
                 = Len(incomes) + Len(expenses)
                     + (IF output'.toast[1] = "success" THEN 1 ELSE 0)]_vars

C12_Witness ==
  /\ output.op = "AddIncomeForm.handleSubmit"
  /\ output.form.amount = "12.50"
  /\ output.toast = <<"success", "Income saved">>
  /\ Len(output.created) = 1
  /\ HundredthsOf(output.created[1].amount) = 1250
  /\ Len(incomes) = 2


CreateOps == SubmitOps \cup {"handleSaveToFirebase"}

\* C13: every document the income form, the expense form or the 'Save All' of
\* the statement upload hands to the store has an amount greater than 0,
\* whatever the sign of the extracted transaction amount.
C13_CreatedAmountsPositive ==
  output.op \in CreateOps =>
    \A i \in 1..Len(output.created) :
      /\ ~output.created[i].amount.nan
      /\ HundredthsOf(output.created[i].amount) > 0


(***************************************************************************)
(* Transactions table and statement                                        *)
(***************************************************************************)
TableOps == {"fetchTransactions", "handleDownloadStatement"}

\* the records admitted for the selected month
AdmittedIds == CountedIds(MyIncomes) \cup CountedIds(MyExpenses)

TimeOfRow(row) == row.date.time

\* C15: every row of LatestTransactionsTable carries a signed amount, positive
\* for an income record and negative for an expense record; the rows are in
\* descending order of date, and the rows on screen are the 50 most recent
\* ones (all of them when there are fewer).
C15_SignedAndMostRecentFirst ==
  (output.op = "fetchTransactions" /\ output.status = "ok") =>
    LET all   == output.allMonthlyTransactions
        shown == output.transactionsToDisplay
    IN  /\ \A i \in 1..Len(all) :
             IF all[i].id[1] = "incomes" THEN all[i].amount.n > 0
             ELSE all[i].amount.n < 0
        /\ \A i, j \in 1..Len(all) :
             i < j => TimeOfRow(all[i]) >= TimeOfRow(all[j])
        /\ Len(shown) = (IF Len(all) < 50 THEN Len(all) ELSE 50)
        /\ \A i \in 1..Len(shown) : shown[i] = all[i]

RECURSIVE CsvFields(_, _, _, _)
\* the fields of a line of comma-separated values: a comma outside quotes
\* ends a field; `field` holds the field read so far, from character i on
CsvFields(line, i, inQuotes, field) ==
  IF i > Len(line) THEN <<field>>
  ELSE IF line[i] = "," /\ ~inQuotes
    THEN <<field>> \o CsvFields(line, i + 1, FALSE, <<>>)
  ELSE CsvFields(line, i + 1,
                 IF line[i] = "\"" THEN ~inQuotes ELSE inQuotes,
                 Append(field, line[i]))

\* the text ends with a point and two digits
TwoDecimals(chars) ==
  /\ Len(chars) >= 4
  /\ chars[Len(chars) - 2] = "."
  /\ chars[Len(chars) - 1] \in Digits
  /\ chars[Len(chars)] \in Digits

\* C16: the statement is the header line Date,Title,Type,Amount and one line
\* for each transaction; each of these lines has exactly four fields: the
\* date, the title and the type as quoted text with the quotes inside it
\* doubled, and the amount with two decimals.
C16_StatementLinesHaveFourFields ==
  (output.op = "handleDownloadStatement" /\ output.file # <<>>) =>
    LET all == output.allMonthlyTransactions
    IN  /\ CsvFields(output.file[1], 1, FALSE, <<>>)
             = <<CharsOf("Date"), CharsOf("Title"), CharsOf("Type"),
                 CharsOf("Amount")>>
        /\ Len(output.file) = Len(all) + 1
        /\ \A i \in 1..Len(all) :
             LET fields == CsvFields(output.file[i + 1], 1, FALSE, <<>>)
             IN  /\ Len(fields) = 4
                 /\ fields[1] = Quoted(formatDate(all[i].date))
                 /\ fields[2] = Quoted(CharsOf(all[i].title.text))
                 /\ fields[3] = Quoted(CharsOf(all[i].type.text))
                 /\ TwoDecimals(fields[4])


(***************************************************************************)
(* Insight card                                                            *)
(***************************************************************************)
\* the line begins with the bullet marker, leading white space ignored
BeginsWithMarker(line) ==
  TrimStart(line) # <<>> /\ Head(TrimStart(line)) = "*"

\* the text of a bullet line: what follows its marker
BulletText(line) == Trim(Tail(TrimStart(line)))

\* the answer carried a text
Answered17 ==
  /\ output.op = "fetchInsight"
  /\ output.response.ok
  /\ output.response.content.t = "text"

\* C17: the list InsightSummaryCard parses from an answer holds exactly the
\* lines that begin with the marker '*' (leading white space ignored), in
\* their order, limited to the first 3, each with its marker stripped; a line
\* that does not begin with the marker does not appear.
C17_BulletsParsed ==
  Answered17 =>
    LET marked   == SelectSeq(output.response.content.lines, BeginsWithMarker)
        expected == SubSeq(marked, 1, IF Len(marked) < 3 THEN Len(marked) ELSE 3)
    IN  /\ Len(output.insightPoints) = Len(expected)
        /\ \A i \in 1..Len(expected) :
             output.insightPoints[i] = BulletText(expected[i])


\* the completions of an invocation that bring no insight: a non-success
\* response, a response without content, a content without bullet lines
FailureKinds == {"notOk", "noContent", "noBullets"}

\* C18: when an invocation of fetchInsight ends on a non-success response, on
\* a response without the content field or on a content with no bullet line,
\* the card is not loading and shows no bullets but its error message or its
\* 'no insights available' text; the invocation has run to its end without
\* an exception leaving it and has sent one request, no second one.
C18_FailureShowsNoInsight ==
  (output.op = "InsightSummaryCard" /\ output.event.kind \in FailureKinds) =>
    /\ ~output.loading
    /\ Rendered(output) # {}
    /\ Rendered(output) \subseteq {"error", "fallback"}
    /\ output.calls[output.event.call].pc = "done"
    /\ output.calls[output.event.call].requests = 1

C18_Witness ==
  /\ output.op = "InsightSummaryCard"
  /\ output.event.kind = "notOk"
  /\ output.insightPoints # <<>>
  /\ Rendered(output) = {"error"}

\* an invocation is under way
Pending ==
  /\ output.op = "InsightSummaryCard"
  /\ \E i \in 1..Len(output.calls) : output.calls[i].pc # "done"

\* the three settled states of the card
SettledSuccess ==
  Len(output.insightPoints) \in 1..3 /\ ~Truthy(output.error)

SettledEmpty == Len(output.insightPoints) = 0 /\ ~Truthy(output.error)

SettledError == Truthy(output.error)

Settled ==
  /\ output.op = "InsightSummaryCard"
  /\ ~Pending
  /\ ~output.loading
  /\ Cardinality({s \in {"success", "empty", "error"} :
                    \/ s = "success" /\ SettledSuccess
                    \/ s = "empty" /\ SettledEmpty
                    \/ s = "error" /\ SettledError}) = 1

\* the state right after the effect has run for a new key
StartsClean ==
  (output.op = "InsightSummaryCard" /\ output.event.kind = "started") =>
    /\ output.event.call = Len(output.calls)
    /\ output.calls[Len(output.calls)].pc = "reads"
    /\ output.calls[Len(output.calls)].month = output.month
    /\ output.calls[Len(output.calls)].year = output.year
    /\ output.loading
    /\ output.insightPoints = <<>>
    /\ output.error = Null

\* C19: every change of the key starts one invocation of fetchInsight, which
\* enters loading with bullets and error cleared; and when the store reads and
\* the requests of the invocations complete, the card settles: no invocation
\* under way, loading false, and exactly one of success (1 to 3 bullets, no
\* error), empty (no bullets, no error) and error (message set), also when
\* invocations overlap.
C19_InvocationsSettle == []StartsClean /\ (Pending ~> Settled)

C19_Witness ==
  /\ Settled
  /\ Len(output.calls) >= 2
  /\ output.event.call = 1
  /\ SettledSuccess


UploadOps ==
  {"AddIncomeForm.handleFileUpload", "AddExpenseForm.handleFileUpload"}

\* the extraction call failed: the request itself, a status outside 2xx, a
\* body that is not JSON, or an empty body
ExtractionFailed(res) ==
  \/ res.kind = "rejected"
  \/ /\ res.kind = "response"
     /\ \/ ~res.ok
        \/ ~res.isJson
        \/ res.body.kind \in {"empty", "malformed"}

\* C20: when the amount-extraction call of AddIncomeForm or AddExpenseForm
\* fails, the form shows the notice 'Extraction failed', takes no amount from
\* the response, lets no exception or rejected promise leave the handler and
\* has sent one request, no further one.
C20_ExtractionFailureHandled ==
  (/\ output.op \in UploadOps
   /\ output.requests > 0
   /\ ExtractionFailed(output.response)) =>
    /\ \E i \in 1..Len(output.toasts) :
         output.toasts[i] = <<"error", "Extraction failed">>
    /\ output.after.amount \in {"", output.form.amount}
    /\ ~output.escaped
    /\ output.requests = 1


(***************************************************************************)
(* Ownership                                                               *)
(***************************************************************************)
\* a record of another account than the one the state was computed for
Foreign(doc) ==
  doc.userId # (IF output.op = "GET" THEN output.uid.text ELSE output.uid)

\* the records of a collection that belong to the account the state was
\* computed for
OwnIncomes == SelectSeq(incomes, LAMBDA doc : ~Foreign(doc))

OwnExpenses == SelectSeq(expenses, LAMBDA doc : ~Foreign(doc))

Appended(before, after) == SubSeq(after, Len(before) + 1, Len(after))

\* the positions before the k-th of the batch that go to a collection
PositionsBefore(transactions, k, classification) ==
  SelectSeq([i \in 1..(k - 1) |-> i],
            LAMBDA i : transactions[i].classifiedAs = classification)

\* the records gained are those of the given positions of the batch, in order
WroteExactly(before, after, transactions, positions) ==
  /\ Len(after) = Len(before) + Len(positions)
  /\ SubSeq(after, 1, Len(before)) = before
  /\ \A j \in 1..Len(positions) :
       LET doc == Appended(before, after)[j]
           tx == transactions[positions[j]]
       IN  /\ doc.amount = Num(Abs(tx.amount.n))
           /\ doc.userId = user
           /\ doc.category.text
                = (IF tx.classifiedAs = "Income" THEN "Salary"
                   ELSE guessExpenseCategory(tx.description))

SaveFailed ==
  /\ output.op = "handleSaveToFirebase"
  /\ output.alert = "Failed to save transactions."

\* the position of the write that failed
FailedAt == Len(output.created)

\* C22: when 'Save All' fails on the k-th transaction of a batch, the store
\* has gained exactly the records of the k-1 transactions before it (none of
\* the k-th or of a later one), the user is told that saving failed, and
\* saving is false again.
C22_PartialSaveStays ==
  [][ SaveFailed' =>
        LET k == FailedAt'
            batch == output'.transactions
        IN  /\ k \in 1..Len(batch)
            /\ WroteExactly(incomes, incomes', batch,
                            PositionsBefore(batch, k, "Income"))
            /\ WroteExactly(expenses, expenses', batch,
                            PositionsBefore(batch, k, "Expense"))
            /\ output'.alert = "Failed to save transactions."
            /\ output'.saving = FALSE ]_vars

\* the second write of a batch of two has failed and the record of the first
\* is in the store
C22_Witness ==
  /\ SaveFailed
  /\ FailedAt = 2
  /\ output.written = 1
  /\ LET tx == output.transactions[1]
         docs == IF tx.classifiedAs = "Income" THEN incomes ELSE expenses
     IN  /\ Len(docs) > 0
         /\ docs[Len(docs)].amount = Num(Abs(tx.amount.n))


(***************************************************************************)
(* Statement upload: repeated 'Save All'                                   *)
(***************************************************************************)
\* the last press of 'Save All' on the page has succeeded
SavedAtLast ==
  /\ output.op = "UploadTransactionsPage"
  /\ output.attempts > 0
  /\ output.alert = "Transactions saved successfully."

\* C26: after any sequence of 'Save All' attempts on one extracted batch that
\* ends with a successful save, each extracted transaction has been written
\* exactly once: the collections have gained the records of the batch, one
\* per transaction, in order.
C26_WrittenExactlyOnce ==
  SavedAtLast =>
    LET batch == output.extracted
        all == Len(batch) + 1
    IN  /\ WroteExactly(SubSeq(incomes, 1, output.incomesBefore), incomes,
                        batch, PositionsBefore(batch, all, "Income"))
        /\ WroteExactly(SubSeq(expenses, 1, output.expensesBefore), expenses,
                        batch, PositionsBefore(batch, all, "Expense"))


(***************************************************************************)
(* Overlapping fetches                                                     *)
(***************************************************************************)
\* the outcome with which the invocation that resolved last has ended
LastOutcome == output.event.kind

\* the outcomes on which fetchInsight sets the error message
ErrorOutcomes == {"readFailed", "notOk", "noContent"}

\* C23: no fetch is cancelled: a change of the key while an invocation of
\* fetchInsight is in flight starts a second one, the result of the first is
\* applied when it arrives, and once both have resolved the state of the card
\* is the one the invocation that resolved last produces: its bullets without
\* an error when it ended with bullets, its error without bullets when it
\* failed.
C23_LastResolvedWins ==
  output.op = "InsightSummaryCard" =>
    /\ \* an earlier invocation that resolves with bullets has them applied
       (LastOutcome = "bullets" /\ output.event.call < Len(output.calls)) =>
         Len(output.insightPoints) > 0
    /\ \* with nothing in flight the state is that of the last resolution
       (~Pending /\ LastOutcome \in {"bullets", "noBullets"}) =>
         output.error = Null
    /\ (~Pending /\ LastOutcome \in ErrorOutcomes) =>
         /\ Truthy(output.error)
         /\ output.insightPoints = <<>>


\* C24: whenever at least one invocation of a widget's fetch is in flight the
\* widget renders its loading state, also after an earlier invocation of the
\* same widget has completed.
C24_LoadingWhileInFlight ==
  Pending => (output.loading /\ "spinner" \in Rendered(output))


(***************************************************************************)
(* LatestTransactionsTable across month changes                            *)
(***************************************************************************)
TablePending ==
  /\ output.op = "LatestTransactionsTable"
  /\ \E i \in 1..Len(output.calls) : output.calls[i].pc # "done"

\* every row is dated in the given month of the given year
AllDatedIn(rows, month, year) ==
  \A j \in 1..Len(rows) :
    /\ getMonth(rows[j].date) = Num(month)
    /\ getFullYear(rows[j].date) = Num(year)

\* C27: after any sequence of month or year changes, completions and failures
\* of fetchTransactions, once no fetch is in flight every row on screen is
\* dated in the selected month and year, and so is every row of a file that
\* Download writes then, which is named after that month and year.
C27_RowsOfSelectedMonth ==
  (output.op = "LatestTransactionsTable" /\ ~TablePending) =>
    /\ AllDatedIn(RowsOnScreen(output), output.month, output.year)
    /\ output.event.kind = "downloaded" =>
         /\ output.file.month = output.month
         /\ output.file.year = output.year
         /\ AllDatedIn(output.file.rows, output.file.month, output.file.year)


(***************************************************************************)
(* A failed store read                                                     *)
(***************************************************************************)
\* the card shows what it shows when mounted: zero totals and no series
ShowsEmpty ==
  /\ output.data = <<>>
  /\ output.currentBalance = Num(0)
  /\ output.currentIncome = Num(0)
  /\ output.currentExpense = Num(0)

\* C25: when the store read of an invocation fails, the widget catches the
\* failure and shows an empty or error state, not the totals that an earlier
\* invocation (for an earlier month or year) has obtained.
C25_FailureShowsNoStaleTotals ==
  (output.op = "TotalBalanceCard" /\ output.event.kind = "readFailed") =>
    \/ ShowsEmpty
    \/ output.shownOf > output.event.call


(***************************************************************************)
(* isExtracting                                                            *)
(***************************************************************************)
\* a file has been selected and its extraction response is not yet handled
ExtractionInFlight ==
  output.op = "handleFileUpload" /\ output.pc \in {"reading", "request"}

\* C28: in both entry forms isExtracting is true from the selection of a file
\* until the extraction response has been handled, so the submit button lets
\* no press through in between, and isExtracting is false again after every
\* outcome.
C28_ExtractingUntilHandled ==
  output.op = "handleFileUpload" =>
    /\ ExtractionInFlight => output.isExtracting
    /\ output.submittedAt \in {"never", "done"}
    /\ output.pc = "done" => ~output.isExtracting


(***************************************************************************)
(* Summary endpoint: categoryTotals                                        *)
(***************************************************************************)
RECURSIVE SumValues(_, _)
\* the sum of the values of the first i entries of an object
SumValues(entries, i) ==
  IF i = 0 THEN Num(0)
  ELSE Plus(SumValues(entries, i - 1), entries[i].value)

\* C29: in every successful response of the summary endpoint the values of
\* categoryTotals sum to totalExpense, whatever the records and the window,
\* also when a category is missing, is not a string, or is a key that the
\* endpoint inserts itself.
C29_CategoryTotalsSumToTotal ==
  (output.op = "GET" /\ output.status = 200) =>
    SumValues(output.body.categoryTotals, Len(output.body.categoryTotals))
      = output.body.totalExpense


(***************************************************************************)
(* The re-implementations side by side                                     *)
(***************************************************************************)
\* the four monthly expense totals of the dashboard for the selection of the
\* state at hand, each as its component computes it on the store
ExpenseThisMonth(component) ==
  CASE component = "DashboardPage" ->
         DashboardPageState(incomes, expenses, output.uid, output.month,
                            output.year).currentExpenses
    [] component = "TotalBalanceCard" ->
         TotalBalanceCardState(incomes, expenses, output.uid, output.month,
                               output.year).currentExpense
    [] component = "InsightSummaryCard" ->
         InsightSummaryCardState(incomes, expenses, output.uid, output.month,
                                 output.year, [ok |-> FALSE]).prompt.totalExpense
    [] component = "SpendingCategoryChart" ->
         LET data == SpendingCategoryChartState(incomes, expenses, output.uid,
                                                output.month, output.year).data
         IN  SumValues(data, Len(data))

\* C30: for every record set of one owner and every selected month and year
\* the re-implementations agree: the page's 'Expenses this month', the
\* current-month expense of TotalBalanceCard, the total expense of the
\* insight prompt and the sum of the category values are equal, and the
\* monthly income and expense of IncomeExpenseChart are those of
\* SavingsTrendChart for the same year.
C30_ReimplementationsAgree ==
  /\ output.op \in {"fetchExpenses", "fetchData", "fetchInsight",
                    "fetchCategoryData"} =>
       \A a, b \in {"DashboardPage", "TotalBalanceCard", "InsightSummaryCard",
                    "SpendingCategoryChart"} :
         ExpenseThisMonth(a) = ExpenseThisMonth(b)
  /\ output.op \in {"fetchIncomeExpenseData", "fetchSavingsData"} =>
       LET chart == IncomeExpenseChartState(incomes, expenses, output.uid,
                                            output.year).data
           trend == SavingsTrendChartState(incomes, expenses, output.uid,
                                           output.year).data
       IN  \A i \in 1..12 :
             /\ chart[i].income = trend[i].income
             /\ chart[i].expenses = trend[i].expense

====
